---- MODULE Spec2Model ----
(***************************************************************************)
(* Verification model of document-query-bot.                               *)
(*                                                                         *)
(*   Spec           a caller of GeminiService.queryDocuments               *)
(*   SpecPage       the chat page (Index) and its message list             *)
(*   SpecOCR        OCRService.performOCR / performBatchOCR, OCR screen    *)
(*   SpecScreen     the OCR screen alone, with its pending calls settling  *)
(*   SpecStoredKey  batch OCR under stored API keys of every length        *)
(*   SpecCamera     the camera of the OCR screen                           *)
(*   SpecDoc        DocumentService.extractTextContent and the PDF readers *)
(*                                                                         *)
(* Strings that the code inspects are sequences of one-character strings,  *)
(* so that toLowerCase, includes, trim and the fence regular expressions   *)
(* are computed the way the code computes them.                            *)
(***************************************************************************)
EXTENDS Integers, Sequences, FiniteSets, TLC

----------------------------------------------------------------------------
(* Bounds *)

MaxDocs == 2

MaxMessages == 2

MaxFiles == 2

----------------------------------------------------------------------------
(* Generic helpers on sequences *)

Null == "null"

Range(s) == {s[i] : i \in 1..Len(s)}

IsPrefix(p, s) == Len(p) <= Len(s) /\ \A i \in 1..Len(p) : p[i] = s[i]

RemoveAt(s, i) == [j \in 1..(Len(s) - 1) |-> IF j < i THEN s[j] ELSE s[j + 1]]

RECURSIVE SeqsUpTo(_, _)
SeqsUpTo(S, n) ==
  IF n = 0 THEN {<<>>}
  ELSE SeqsUpTo(S, n - 1) \cup {Append(s, x) : s \in {t \in SeqsUpTo(S, n - 1) : Len(t) = n - 1}, x \in S}

RECURSIVE MapName(_)
MapName(ds) == IF ds = <<>> THEN <<>> ELSE <<Head(ds).name>> \o MapName(Tail(ds))

----------------------------------------------------------------------------
(* String.prototype.toLowerCase and String.prototype.includes *)

LowerChar(c) ==
  CASE c = "A" -> "a"
    [] c = "B" -> "b"
    [] c = "X" -> "x"
    [] OTHER -> c

toLowerCase(s) == [i \in 1..Len(s) |-> LowerChar(s[i])]

includes(s, sub) ==
  \E k \in 0..(Len(s) - Len(sub)) : \A i \in 1..Len(sub) : s[k + i] = sub[i]

----------------------------------------------------------------------------
(* String.prototype.trim / startsWith and the two fence regular            *)
(* expressions of performOCR.  A response text is a sequence of lexemes:   *)
(* single characters for white space, backticks and punctuation, and one   *)
(* element for a word, a number or a quoted string.                        *)

IsWs(c) == c \in {" ", "\n"}

RECURSIVE TrimStart(_)
TrimStart(s) == IF s # <<>> /\ IsWs(Head(s)) THEN TrimStart(Tail(s)) ELSE s

RECURSIVE TrimEnd(_)
TrimEnd(s) ==
  IF s # <<>> /\ IsWs(s[Len(s)]) THEN TrimEnd(SubSeq(s, 1, Len(s) - 1)) ELSE s

trim(s) == TrimEnd(TrimStart(s))

startsWith(s, p) == IsPrefix(p, s)

\* one backtick character
Tick == "tick"

Fence == <<Tick, Tick, Tick>>

FenceJson == <<Tick, Tick, Tick, "json">>

\* replace of the opening fence and the white space after it
ReplaceOpenFence(s, fence) ==
  IF startsWith(s, fence) THEN TrimStart(SubSeq(s, Len(fence) + 1, Len(s))) ELSE s

\* replace of the closing fence at the end and the white space before it
ReplaceCloseFence(s) ==
  IF Len(s) >= 3 /\ SubSeq(s, Len(s) - 2, Len(s)) = Fence
    THEN TrimEnd(SubSeq(s, 1, Len(s) - 3))
    ELSE s

CleanResponse_KeepFence(text) == trim(text)

\* responseText after the clean-up of performOCR
CleanResponse(text) ==
  LET t == trim(text)
  IN  IF startsWith(t, FenceJson) THEN ReplaceCloseFence(ReplaceOpenFence(t, FenceJson))
      ELSE IF startsWith(t, Fence) THEN ReplaceCloseFence(ReplaceOpenFence(t, Fence))
      ELSE t

----------------------------------------------------------------------------
(* JSON.parse on lexeme sequences *)

QRawText == "\"rawText\""

QText == "\"text\""

StringLexemes == {QRawText, QText}

NumberLexemes == {"1"}

\* the string a quoted lexeme denotes
Unquote(l) == IF l = QRawText THEN "rawText" ELSE "text"

JVal(t, text, kids) == [t |-> t, text |-> text, kids |-> kids]

JMember(k, v) == [k |-> k, v |-> v]

JFail == [ok |-> FALSE, val |-> JVal("none", <<>>, <<>>), nxt |-> 0]

JOk(v, n) == [ok |-> TRUE, val |-> v, nxt |-> n]

RECURSIVE SkipWs(_, _)
SkipWs(s, i) == IF i <= Len(s) /\ IsWs(s[i]) THEN SkipWs(s, i + 1) ELSE i

RECURSIVE ParseValue(_, _)
RECURSIVE ParseMembers(_, _, _)
RECURSIVE ParseElements(_, _, _)

ParseValue(s, i) ==
  LET j == SkipWs(s, i)
  IN  IF j > Len(s) THEN JFail
      ELSE IF s[j] = "{"
        THEN LET k == SkipWs(s, j + 1)
             IN  IF k <= Len(s) /\ s[k] = "}"
                   THEN JOk(JVal("object", <<>>, <<>>), k + 1)
                   ELSE ParseMembers(s, k, <<>>)
      ELSE IF s[j] = "["
        THEN LET k == SkipWs(s, j + 1)
             IN  IF k <= Len(s) /\ s[k] = "]"
                   THEN JOk(JVal("array", <<>>, <<>>), k + 1)
                   ELSE ParseElements(s, k, <<>>)
      ELSE IF s[j] \in NumberLexemes THEN JOk(JVal("number", <<s[j]>>, <<>>), j + 1)
      ELSE IF s[j] \in StringLexemes THEN JOk(JVal("string", <<Unquote(s[j])>>, <<>>), j + 1)
      ELSE IF s[j] = "null" THEN JOk(JVal("null", <<>>, <<>>), j + 1)
      ELSE JFail

\* members of an object from position i (white space skipped), up to "}"
ParseMembers(s, i, acc) ==
  IF i > Len(s) \/ s[i] \notin StringLexemes THEN JFail
  ELSE LET c == SkipWs(s, i + 1)
       IN  IF c > Len(s) \/ s[c] # ":" THEN JFail
           ELSE LET v == ParseValue(s, c + 1)
                IN  IF ~v.ok THEN JFail
                    ELSE LET e == SkipWs(s, v.nxt)
                             acc2 == Append(acc, JMember(Unquote(s[i]), v.val))
                         IN  IF e > Len(s) THEN JFail
                             ELSE IF s[e] = "}" THEN JOk(JVal("object", <<>>, acc2), e + 1)
                             ELSE IF s[e] = "," THEN ParseMembers(s, SkipWs(s, e + 1), acc2)
                             ELSE JFail

\* elements of an array from position i (white space skipped), up to "]"
ParseElements(s, i, acc) ==
  LET v == ParseValue(s, i)
  IN  IF ~v.ok THEN JFail
      ELSE LET e == SkipWs(s, v.nxt)
               acc2 == Append(acc, JMember("", v.val))
           IN  IF e > Len(s) THEN JFail
               ELSE IF s[e] = "]" THEN JOk(JVal("array", <<>>, acc2), e + 1)
               ELSE IF s[e] = "," THEN ParseElements(s, SkipWs(s, e + 1), acc2)
               ELSE JFail

\* JSON.parse(text): the value, or a SyntaxError
JSONparse(s) ==
  LET r == ParseValue(s, 1)
  IN  IF r.ok /\ SkipWs(s, r.nxt) > Len(s) THEN r ELSE JFail

----------------------------------------------------------------------------
(* GeminiService: model names *)

DefaultModel == "gemini-2.0-flash-exp"

fallbackModels == <<"gemini-1.5-flash", "gemini-1.5-pro", "gemini-pro">>

modelsToTry == <<"gemini-2.0-flash-exp", "gemini-1.5-flash", "gemini-1.5-pro", "gemini-pro">>

----------------------------------------------------------------------------
(* Documents held by the chat page.  content is described by what          *)
(* queryDocuments reads of it: its length, whether it carries the          *)
(* image-based-PDF warning, and whether the part after the first comma of  *)
(* a data URL is non-empty.                                                *)

MinContentLength == 100

\* the content of the one-line invoice file, character by character
InvoiceText ==
  <<"I", "n", "v", "o", "i", "c", "e", " ", "#", "1", "2", "3", ",", " ",
    "T", "o", "t", "a", "l", ":", " ", "$", "4", "5", "0">>

InvoiceLength == Len(InvoiceText)

Doc(n, t, l, mk, b) == [name |-> n, type |-> t, len |-> l, marker |-> mk, b64 |-> b]

NameA == <<"a">>

NameBx == <<"B", "x">>

DocPool ==
  { Doc(NameA,  "text/plain",      InvoiceLength,        FALSE, FALSE),
    Doc(NameBx, "text/plain",      MinContentLength + 1, FALSE, FALSE),
    Doc(NameBx, "text/plain",      MinContentLength,     FALSE, FALSE),
    Doc(NameA,  "text/plain",      0,                    FALSE, FALSE),
    Doc(NameA,  "application/pdf", 4 * MinContentLength, TRUE,  FALSE),
    Doc(NameBx, "image/png",       2 * MinContentLength, FALSE, TRUE),
    Doc(NameA,  "image/png",       5,                    FALSE, FALSE) }

typeIncludesPdf(t) == t = "application/pdf"

typeStartsWithImage(t) == t \in {"image/png"}

----------------------------------------------------------------------------
(* What the remote model may do with one generateContent call *)

Answers ==
  { <<>>, <<"A">>, <<"y", "b", "X">>, <<"y">>, <<"a", "b", "x">> }

\* An error message is described by the classes of substrings it matches:
\* nf (404 / not found), auth, quota, rate.  The empty set is an
\* unclassified transport error.
ErrorMessages ==
  { {"nf"}, {"auth"}, {"quota"}, {"rate"}, {}, {"nf", "quota"}, {"auth", "quota"} }

Apology == <<"!">>

----------------------------------------------------------------------------
(* GeminiService.queryDocuments: building the content parts *)

Part(k, ns, l) == [kind |-> k, names |-> ns, len |-> l]

hasContent(d) == d.len > 0

isImageBasedPDF(d) == typeIncludesPdf(d.type) /\ d.marker

isProcessable(d) == ~isImageBasedPDF(d) /\ d.len > MinContentLength

\* The parts one document adds to contentParts inside the document loop.
DocParts(d) ==
  IF ~hasContent(d) THEN <<>>
  ELSE IF isImageBasedPDF(d) THEN <<>>
  ELSE IF typeStartsWithImage(d.type)
    THEN IF ~d.b64
           THEN <<Part("imagefailed", <<d.name>>, 0)>>
           ELSE <<Part("label", <<d.name>>, 0), Part("inlineData", <<d.name>>, d.len)>>
  ELSE IF isProcessable(d) THEN <<Part("text", <<d.name>>, d.len)>>
  ELSE <<>>

\* Whether the document loop pushes the document onto nonProcessableDocuments.
isNonProcessable(d) ==
  /\ hasContent(d)
  /\ \/ isImageBasedPDF(d)
     \/ (~typeStartsWithImage(d.type) /\ ~isProcessable(d))

\* Whether the document loop pushes the document onto processableDocuments.
isProcessed(d) ==
  /\ hasContent(d)
  /\ ~isImageBasedPDF(d)
  /\ \/ (typeStartsWithImage(d.type) /\ d.b64)
     \/ (~typeStartsWithImage(d.type) /\ isProcessable(d))

RECURSIVE AllDocParts(_)
AllDocParts(ds) ==
  IF ds = <<>> THEN <<>> ELSE DocParts(Head(ds)) \o AllDocParts(Tail(ds))

nonProcessableDocuments(ds) == SelectSeq(ds, isNonProcessable)

NotePart(ds) ==
  IF Len(nonProcessableDocuments(ds)) > 0
    THEN <<Part("note", MapName(nonProcessableDocuments(ds)), 0)>>
    ELSE <<>>

\* contentParts as it stands when the code reaches the length check.
BuildContentParts(ds) ==
  <<Part("prompt", MapName(ds), 0)>> \o AllDocParts(ds) \o NotePart(ds)

\* The parts of the minimal test call of discoverWorkingModel.
TestParts == <<Part("test", <<>>, 0)>>

----------------------------------------------------------------------------
(* GeminiService.queryDocuments: the value returned for an answer *)

NameInAnswer_CaseSensitive(answer, d) == includes(answer, d.name)

NameInAnswer(answer, d) == includes(toLowerCase(answer), toLowerCase(d.name))

ExtractSources(answer, ds) ==
  LET matched == SelectSeq(ds, LAMBDA d : NameInAnswer(answer, d))
  IN  IF Len(matched) > 0 THEN MapName(matched) ELSE MapName(ds)

ReturnedAnswer(answer) == IF answer = <<>> THEN Apology ELSE answer

Returned(answer, ds) ==
  [status |-> "ok", answer |-> ReturnedAnswer(answer),
   sources |-> ExtractSources(answer, ds), error |-> "none", cause |-> "none"]

\* category is the branch of the catch block that built the message; cause
\* is the message it embeds ("none" when the branch embeds none).
Thrown(category, cause) ==
  [status |-> "threw", answer |-> <<>>, sources |-> <<>>, error |-> category,
   cause |-> cause]

NoResult ==
  [status |-> "none", answer |-> <<>>, sources |-> <<>>, error |-> "none",
   cause |-> "none"]

ErrorCategory_QuotaBeforeAuth(msg) ==
  IF "nf" \in msg THEN "modelnotfound"
  ELSE IF "quota" \in msg THEN "quota"
  ELSE IF "auth" \in msg THEN "auth"
  ELSE IF "rate" \in msg THEN "ratelimit"
  ELSE "generic"

\* The branch of the catch block an error message takes.
ErrorCategory(msg) ==
  IF "nf" \in msg THEN "modelnotfound"
  ELSE IF "auth" \in msg THEN "auth"
  ELSE IF "quota" \in msg THEN "quota"
  ELSE IF "rate" \in msg THEN "ratelimit"
  ELSE "generic"

----------------------------------------------------------------------------
(* State *)

VARIABLES
  \* GeminiService (a singleton)
  genAI,            \* TRUE when this.genAI is set
  model,            \* name of the model this.model was built for, or Null
  modelName,        \* this.modelName
  \* Index page
  documents,        \* documents state
  messages,         \* messages state
  isLoading,        \* isLoading state
  error,            \* error state: Null or the category of the last error
  \* the queryDocuments call in flight
  pc,               \* "idle", "primary", "fallback", "probe", "retry", "returned"
  callDocs,         \* the documents argument
  contentParts,     \* the contentParts array of the call
  errorMessage,     \* errorMessage of the catch block
  lastFailure,      \* class of the error of the call's last failed primary or
                    \* fallback attempt, "none" before any failed
  fbIdx,            \* position of the fallback loop in fallbackModels
  probeIdx,         \* position of discoverWorkingModel in modelsToTry
  attempts,         \* generateContent calls made by the call, in order
  result,           \* what the call returned or threw, until the caller takes it
  \* bookkeeping for the properties
  adopted,          \* model adopted by the last fallback or discovery success
  firstAdopted,     \* model adopted by the first such success since initialize
  initSinceAttempt  \* initialize ran while the current attempt was pending

serviceVars == <<genAI, model, modelName>>

pageVars == <<documents, messages, isLoading, error>>

callVars == <<pc, callDocs, contentParts, errorMessage, lastFailure,
              fbIdx, probeIdx, attempts, result>>

histVars == <<adopted, firstAdopted, initSinceAttempt>>

chatVars == <<serviceVars, pageVars, callVars, histVars>>

Question == <<"q">>

UserMessage == [type |-> "user", content |-> Question, relatedDocuments |-> <<>>]

AiMessage(r) == [type |-> "assistant", content |-> r.answer, relatedDocuments |-> r.sources]

Attempt(k, m, parts) ==
  [kind |-> k, model |-> m, parts |-> parts, outcome |-> "pending", answer |-> <<>>]

Mark(att, outcome, answer) ==
  [att EXCEPT ![Len(att)].outcome = outcome, ![Len(att)].answer = answer]

InitChat ==
  /\ genAI = FALSE
  /\ model = Null
  /\ modelName = DefaultModel
  /\ documents = <<>>
  /\ messages = <<>>
  /\ isLoading = FALSE
  /\ error = Null
  /\ pc = "idle"
  /\ callDocs = <<>>
  /\ contentParts = <<>>
  /\ errorMessage = {}
  /\ lastFailure = "none"
  /\ fbIdx = 0
  /\ probeIdx = 0
  /\ attempts = <<>>
  /\ result = NoResult
  /\ adopted = Null
  /\ firstAdopted = Null
  /\ initSinceAttempt = FALSE

----------------------------------------------------------------------------
(* GeminiService.initialize, reached from the API key dialog and the page  *)
(* mount effect.  getGenerativeModel may throw after genAI was assigned.   *)

initialize ==
  \E outcome \in {"ok", "throws"} :
    /\ pc # "returned"
    /\ genAI' = TRUE
    /\ IF outcome = "ok"
         THEN model' = DefaultModel /\ modelName' = DefaultModel
         ELSE UNCHANGED <<model, modelName>>
    /\ adopted' = Null
    /\ firstAdopted' = Null
    /\ initSinceAttempt' = (pc # "idle")
    /\ UNCHANGED <<pageVars, callVars>>

----------------------------------------------------------------------------
(* GeminiService.queryDocuments *)

\* The call settles: its promise resolves with res or rejects with it.
Settle(res, att) ==
  /\ result' = res
  /\ attempts' = att
  /\ pc' = "returned"
  /\ UNCHANGED <<pageVars, callDocs, contentParts, fbIdx, probeIdx>>

\* A fallback or discovery retry answered: the model it set stays current.
Adopt(m) ==
  /\ adopted' = IF initSinceAttempt THEN Null ELSE m
  /\ firstAdopted' = IF initSinceAttempt \/ firstAdopted # Null THEN firstAdopted ELSE m
  /\ UNCHANGED initSinceAttempt

StartDiscovery_GiveUp(att) ==
  /\ Settle(Thrown("terminal", "modelnotfound"), att)
  /\ UNCHANGED <<serviceVars, probeIdx, initSinceAttempt>>

\* discoverWorkingModel's loop makes its first test call, or returns null
\* at once when genAI is not set and the terminal error is thrown.
StartDiscovery(att) ==
  IF genAI
    THEN /\ pc' = "probe"
         /\ probeIdx' = 1
         /\ attempts' = Append(att, Attempt("probe", modelsToTry[1], TestParts))
         /\ initSinceAttempt' = FALSE
         /\ UNCHANGED <<serviceVars, pageVars, callDocs, contentParts, fbIdx, result>>
    ELSE /\ Settle(Thrown("terminal", "modelnotfound"), att)
         /\ UNCHANGED <<serviceVars, probeIdx, initSinceAttempt>>

\* The argument of the generateContent call of a fallback attempt and of the
\* retry on a discovered model: the contentParts array of the call.
RetryParts_Rebuilt == <<contentParts[1]>>

RetryParts == contentParts

\* First position at or after from whose name passes the skip check
\* (fallbackModel === this.modelName -> continue); 0 when the loop ends.
NextFallbackIdx_LastFirst(from, current) ==
  LET cands == {i \in from..Len(fallbackModels) : fallbackModels[i] # current}
  IN  IF cands = {} THEN 0 ELSE CHOOSE i \in cands : \A j \in cands : i >= j

NextFallbackIdx(from, current) ==
  LET cands == {i \in from..Len(fallbackModels) : fallbackModels[i] # current}
  IN  IF cands = {} THEN 0 ELSE CHOOSE i \in cands : \A j \in cands : i <= j

\* The fallback loop from position from up to its next generateContent call.
ContinueFallback(from, att) ==
  LET i == IF genAI THEN NextFallbackIdx(from, modelName) ELSE 0
  IN  IF i # 0
        THEN /\ model' = fallbackModels[i]
             /\ modelName' = fallbackModels[i]
             /\ pc' = "fallback"
             /\ fbIdx' = i
             /\ attempts' = Append(att, Attempt("fallback", fallbackModels[i], RetryParts))
             /\ initSinceAttempt' = FALSE
             /\ UNCHANGED <<genAI, pageVars, callDocs, contentParts, probeIdx, result>>
        ELSE /\ StartDiscovery(att)
             /\ UNCHANGED fbIdx

\* queryDocuments(query, ds) from its entry to its first await.
QueryStart(ds) ==
  /\ pc = "idle"
  /\ callDocs' = ds
  /\ errorMessage' = {}
  /\ lastFailure' = "none"
  /\ fbIdx' = 0
  /\ probeIdx' = 0
  /\ initSinceAttempt' = FALSE
  /\ UNCHANGED <<serviceVars, adopted, firstAdopted>>
  /\ IF model = Null
       THEN \* thrown before contentParts exists
            /\ contentParts' = <<>>
            /\ result' = Thrown("notinitialized", "none")
            /\ attempts' = <<>>
            /\ pc' = "returned"
       ELSE IF Len(BuildContentParts(ds)) = 1
       THEN \* thrown inside the try and rebuilt by the generic branch
            /\ contentParts' = BuildContentParts(ds)
            /\ result' = Thrown("generic", "noreadable")
            /\ attempts' = <<>>
            /\ pc' = "returned"
       ELSE /\ contentParts' = BuildContentParts(ds)
            /\ result' = NoResult
            /\ attempts' = <<Attempt("primary", model, BuildContentParts(ds))>>
            /\ pc' = "primary"

PrimaryReturn ==
  /\ pc = "primary"
  /\ \/ \E a \in Answers :
          /\ Settle(Returned(a, callDocs), Mark(attempts, "ok", a))
          /\ UNCHANGED <<serviceVars, errorMessage, lastFailure, histVars>>
     \/ \E e \in ErrorMessages :
          /\ errorMessage' = e
          /\ lastFailure' = ErrorCategory(e)
          /\ IF ErrorCategory(e) = "modelnotfound"
               THEN /\ ContinueFallback(1, Mark(attempts, "fail", <<>>))
                    /\ adopted' = Null
                    /\ UNCHANGED firstAdopted
               ELSE /\ Settle(Thrown(ErrorCategory(e),
                                     IF ErrorCategory(e) = "generic" THEN "transport" ELSE "none"),
                              Mark(attempts, "fail", <<>>))
                    /\ UNCHANGED <<serviceVars, histVars>>

FallbackReturn ==
  /\ pc = "fallback"
  /\ \/ \E a \in Answers :
          /\ Settle(Returned(a, callDocs), Mark(attempts, "ok", a))
          /\ Adopt(fallbackModels[fbIdx])
          /\ UNCHANGED <<serviceVars, errorMessage, lastFailure>>
     \/ \E e \in ErrorMessages :
          /\ ContinueFallback(fbIdx + 1, Mark(attempts, "fail", <<>>))
          /\ lastFailure' = ErrorCategory(e)
          /\ UNCHANGED <<errorMessage, adopted, firstAdopted>>

ProbeReturn_RetryOnFirstName ==
  /\ pc = "probe"
  /\ \/ \* the test call answered: discoverWorkingModel returns this name
        /\ genAI
        /\ model' = modelsToTry[1]
        /\ modelName' = modelsToTry[1]
        /\ pc' = "retry"
        /\ attempts' = Append(Mark(attempts, "ok", <<>>),
                              Attempt("retry", modelsToTry[1], RetryParts))
        /\ initSinceAttempt' = FALSE
        /\ UNCHANGED <<genAI, pageVars, callDocs, contentParts, errorMessage, lastFailure, fbIdx,
                       probeIdx, result, adopted, firstAdopted>>
     \/ \* the test call failed: next candidate, or null after the last one
        IF probeIdx < Len(modelsToTry)
          THEN /\ probeIdx' = probeIdx + 1
               /\ attempts' = Append(Mark(attempts, "fail", <<>>),
                                     Attempt("probe", modelsToTry[probeIdx + 1], TestParts))
               /\ initSinceAttempt' = FALSE
               /\ UNCHANGED <<serviceVars, pageVars, pc, callDocs, contentParts,
                              errorMessage, lastFailure, fbIdx, result, adopted, firstAdopted>>
          ELSE /\ Settle(Thrown("terminal", "modelnotfound"), Mark(attempts, "fail", <<>>))
               /\ UNCHANGED <<serviceVars, errorMessage, lastFailure, histVars>>

ProbeReturn ==
  /\ pc = "probe"
  /\ \/ \* the test call answered: discoverWorkingModel returns this name
        /\ genAI
        /\ model' = modelsToTry[probeIdx]
        /\ modelName' = modelsToTry[probeIdx]
        /\ pc' = "retry"
        /\ attempts' = Append(Mark(attempts, "ok", <<>>),
                              Attempt("retry", modelsToTry[probeIdx], RetryParts))
        /\ initSinceAttempt' = FALSE
        /\ UNCHANGED <<genAI, pageVars, callDocs, contentParts, errorMessage, lastFailure, fbIdx,
                       probeIdx, result, adopted, firstAdopted>>
     \/ \* the test call failed: next candidate, or null after the last one
        IF probeIdx < Len(modelsToTry)
          THEN /\ probeIdx' = probeIdx + 1
               /\ attempts' = Append(Mark(attempts, "fail", <<>>),
                                     Attempt("probe", modelsToTry[probeIdx + 1], TestParts))
               /\ initSinceAttempt' = FALSE
               /\ UNCHANGED <<serviceVars, pageVars, pc, callDocs, contentParts,
                              errorMessage, lastFailure, fbIdx, result, adopted, firstAdopted>>
          ELSE /\ Settle(Thrown("terminal", "modelnotfound"), Mark(attempts, "fail", <<>>))
               /\ UNCHANGED <<serviceVars, errorMessage, lastFailure, histVars>>

RetryReturn ==
  /\ pc = "retry"
  /\ \/ \E a \in Answers :
          /\ Settle(Returned(a, callDocs), Mark(attempts, "ok", a))
          /\ Adopt(modelsToTry[probeIdx])
          /\ UNCHANGED <<serviceVars, errorMessage, lastFailure>>
     \/ /\ Settle(Thrown("terminal", "modelnotfound"), Mark(attempts, "fail", <<>>))
        /\ UNCHANGED <<serviceVars, errorMessage, lastFailure, histVars>>

\* The locals of a settled call go away with it.
DropCall ==
  /\ pc' = "idle"
  /\ callDocs' = <<>>
  /\ contentParts' = <<>>
  /\ errorMessage' = {}
  /\ lastFailure' = "none"
  /\ fbIdx' = 0
  /\ probeIdx' = 0
  /\ attempts' = <<>>
  /\ result' = NoResult

----------------------------------------------------------------------------
(* A caller of the service that passes any document list *)

DocLists == SeqsUpTo(DocPool, MaxDocs)

queryDocuments ==
  \E ds \in DocLists :
    /\ QueryStart(ds)
    /\ UNCHANGED pageVars

callerResume ==
  /\ pc = "returned"
  /\ DropCall
  /\ UNCHANGED <<serviceVars, pageVars, histVars>>

----------------------------------------------------------------------------
(* Index page *)

PagePool ==
  { Doc(NameA,  "text/plain", InvoiceLength,        FALSE, FALSE),
    Doc(NameBx, "text/plain", MinContentLength + 1, FALSE, FALSE) }

handleFileUpload ==
  \E d \in PagePool :
    /\ pc # "returned"
    /\ Len(documents) < MaxDocs
    /\ documents' = Append(documents, d)
    /\ UNCHANGED <<serviceVars, messages, isLoading, error, callVars, histVars>>

handleRemoveDocument ==
  \E i \in 1..Len(documents) :
    /\ pc # "returned"
    /\ documents' = RemoveAt(documents, i)
    /\ UNCHANGED <<serviceVars, messages, isLoading, error, callVars, histVars>>

handleClearDocuments ==
  /\ pc # "returned"
  /\ Len(documents) > 0
  /\ documents' = <<>>
  /\ messages' = <<>>
  /\ UNCHANGED <<serviceVars, isLoading, error, callVars, histVars>>

handleSendMessage_LoadingNotSet ==
  /\ ~isLoading
  /\ model # Null
  /\ Len(documents) > 0
  /\ Len(messages) + 2 <= MaxMessages
  /\ messages' = Append(messages, UserMessage)
  /\ UNCHANGED isLoading
  /\ error' = Null
  /\ UNCHANGED documents
  /\ QueryStart(documents)

\* handleSubmit and handleSendMessage up to the await of queryDocuments
handleSendMessage ==
  /\ ~isLoading
  /\ model # Null
  /\ Len(documents) > 0
  /\ Len(messages) + 2 <= MaxMessages
  /\ messages' = Append(messages, UserMessage)
  /\ isLoading' = TRUE
  /\ error' = Null
  /\ UNCHANGED documents
  /\ QueryStart(documents)

handleSendMessageResume_AppendOnFailure ==
  /\ pc = "returned"
  /\ messages' = Append(messages, AiMessage(result))
  /\ error' = IF result.status = "ok" THEN error ELSE result.error
  /\ isLoading' = FALSE
  /\ DropCall
  /\ UNCHANGED <<serviceVars, documents, histVars>>

\* handleSendMessage after the await: try / catch / finally
handleSendMessageResume ==
  /\ pc = "returned"
  /\ IF result.status = "ok"
       THEN /\ messages' = Append(messages, AiMessage(result))
            /\ UNCHANGED error
       ELSE /\ error' = result.error
            /\ UNCHANGED messages
  /\ isLoading' = FALSE
  /\ DropCall
  /\ UNCHANGED <<serviceVars, documents, histVars>>

----------------------------------------------------------------------------
(* OCRService and the OCR screen: data *)

FileItem(k, n, t) == [kind |-> k, name |-> n, type |-> t]

\* a File object, and a data URL string captured from the camera
FilePool ==
  { FileItem("file", "scan.pdf", "application/pdf"),
    FileItem("camera", "camera-capture.png", "") }

FileLists == SeqsUpTo(FilePool, MaxFiles)

\* localStorage holds no gemini_api_key item (or an empty one, which every
\* reader treats the same way)
NoKey == <<>>

\* the key typed into the API key dialog
StoredKey == <<"A", "I", "z", "a", "S", "y", "D", "x", "9">>

MaxKeyLen == 9

\* keys an earlier session may have left in localStorage
StoredKeys == {[i \in 1..n |-> "k"] : n \in 0..MaxKeyLen}

PrefixLength == 8

Unknown == <<"u", "n", "k", "n", "o", "w", "n">>

\* String.prototype.substring(0, n)
substring0(str, n) == SubSeq(str, 1, IF n < Len(str) THEN n ELSE Len(str))

\* apiKeyPrefix of the catch blocks
ApiKeyPrefix(currentApiKey) ==
  IF currentApiKey # NoKey THEN substring0(currentApiKey, PrefixLength) ELSE Unknown

JObject(members) == JVal("object", <<>>, members)

JString(text) == JVal("string", text, <<>>)

ResponseObject == <<"{", QRawText, ":", QText, "}">>

ResponseTexts ==
  { ResponseObject,
    FenceJson \o <<"\n">> \o ResponseObject \o <<"\n">> \o Fence,
    <<" ">> \o Fence \o <<"\n", "{", QText, ":", "1", "}", " ", "\n">> \o Fence \o <<"\n">>,
    FenceJson \o <<"{", "}">> \o Fence,
    <<" ", "x", " ", "x", "\n">>,
    Fence \o <<"x">> \o Fence,
    <<"[", "1", "]">>,
    <<"null">> }

ParseFailureNote == <<"Failed to parse structured JSON, returning raw text">>

\* extractedData of performOCR for the cleaned response text
ExtractedData(cleaned) ==
  IF JSONparse(cleaned).ok
    THEN JSONparse(cleaned).val
    ELSE JObject(<<JMember("rawText", JString(cleaned)),
                   JMember("error", JString(ParseFailureNote))>>)

\* the value of a property that is absent
Undefined == <<"undefined">>

\* extractedData.rawText when it is a string, else Undefined
RawTextOf(data) ==
  LET hits == {i \in 1..Len(data.kids) :
                 data.kids[i].k = "rawText" /\ data.kids[i].v.t = "string"}
  IN  IF data.t = "object" /\ hits # {}
        THEN data.kids[CHOOSE i \in hits : \A j \in hits : i >= j].v.text
        ELSE Undefined

\* the branch of performOCR's catch block an error message takes
OcrErrorCategory(msg) ==
  IF "quota" \in msg THEN "quota"
  ELSE IF "auth" \in msg THEN "auth"
  ELSE IF "rate" \in msg THEN "ratelimit"
  ELSE "generic"

\* fileName of performOCR
OcrFileName(item, documentName) ==
  IF documentName # Null THEN documentName
  ELSE IF item.kind = "camera" THEN "camera-capture" ELSE item.name

\* mimeType of performOCR after the conversion to base64
OcrMimeType(item) ==
  IF item.kind = "camera" THEN "image/png"
  ELSE IF item.type = "" THEN "image/png" ELSE item.type

\* the OCRResult performOCR returns for a model response
OcrSuccess(item, documentName, text) ==
  LET cleaned == CleanResponse(text)
      data == ExtractedData(cleaned)
  IN  [documentName |-> OcrFileName(item, documentName),
       documentType |-> OcrMimeType(item),
       extractedData |-> data,
       rawText |-> IF RawTextOf(data) # Undefined THEN RawTextOf(data) ELSE cleaned,
       timed |-> TRUE]

\* reading .rawText of null throws inside the try of performOCR
OcrThrowsOnData(text) == ExtractedData(CleanResponse(text)).t = "null"

ErrorResult_NoErrorKey(item, documentName, i, message) ==
  [documentName |-> IF documentName # Null THEN documentName ELSE "document-" \o ToString(i),
   documentType |-> IF item.kind = "camera" THEN "image/png" ELSE item.type,
   extractedData |-> JObject(<<>>),
   rawText |-> Undefined,
   timed |-> FALSE]

\* the placeholder the batch loops push when performOCR threw; message is the
\* text of its error key, a sequence of message pieces
ErrorResult(item, documentName, i, message) ==
  [documentName |-> IF documentName # Null THEN documentName ELSE "document-" \o ToString(i),
   documentType |-> IF item.kind = "camera" THEN "image/png" ELSE item.type,
   extractedData |-> JObject(<<JMember("error", JString(message))>>),
   rawText |-> Undefined,
   timed |-> FALSE]

Tip == "tip"

\* displayError of handleProcessOCR: the message, followed by the tip when it
\* is the quota message
DisplayError(message) ==
  IF includes(message, <<"quota">>) THEN message \o <<Tip>> ELSE message

\* the message of the Error performOCR throws: its class, followed for the
\* quota class by the key prefix the message embeds
OcrErrorText(message, currentApiKey) ==
  IF message = "quota" THEN <<message>> \o ApiKeyPrefix(currentApiKey) ELSE <<message>>

NameAt(names, i) == IF names = Null THEN Null ELSE names[i]

RECURSIVE ItemNames(_)
ItemNames(fs) == IF fs = <<>> THEN <<>> ELSE <<Head(fs).name>> \o ItemNames(Tail(fs))

\* combinedJson while it is null
NoCombined == [totalDocuments |-> -1, documents |-> <<>>]

----------------------------------------------------------------------------
(* OCRService and the OCR screen: state *)

VARIABLES
  storedKey,      \* localStorage gemini_api_key, or NoKey
  ocrModel,       \* OCRService.model: a model name or Null
  files,          \* files state of the screen
  fileNames,      \* fileNames state of the screen
  isProcessing,   \* isProcessing state
  progress,       \* progress state
  results,        \* results state
  combinedJson,   \* combinedJson state: NoCombined (null) or the combined object
  clearedInRun,   \* Clear All was pressed during the Process run that is
                  \* active or ended last, and not since
  oDriver,        \* "none", "batch" (performBatchOCR) or "screen" (handleProcessOCR)
  opc,            \* "idle", "reading", "calling", "returned"
  runFiles,       \* the files the loop iterates over
  runNames,       \* the names the loop iterates over, or Null
  oIdx,           \* loop index i, counted from 1
  processed,      \* the results array of the loop
  outcomes        \* what happened to each item so far

ocrServiceVars == <<storedKey, ocrModel>>

screenVars == <<files, fileNames, isProcessing, progress, results, combinedJson,
                clearedInRun>>

runVars == <<oDriver, opc, runFiles, runNames, oIdx, processed, outcomes>>

ocrVars == <<ocrServiceVars, screenVars, runVars>>

InitScreen ==
  /\ ocrModel = Null
  /\ files = <<>>
  /\ fileNames = <<>>
  /\ isProcessing = FALSE
  /\ progress = 0
  /\ results = <<>>
  /\ combinedJson = NoCombined
  /\ clearedInRun = FALSE
  /\ oDriver = "none"
  /\ opc = "idle"
  /\ runFiles = <<>>
  /\ runNames = Null
  /\ oIdx = 0
  /\ processed = <<>>
  /\ outcomes = <<>>

InitOCR ==
  /\ storedKey = NoKey
  /\ InitScreen

----------------------------------------------------------------------------
(* OCRService.performOCR, one item of a loop at a time *)

\* the check before the try: the service has no model, the stored key does
\* not yield one and geminiService has none to lend
EntryThrows(initOk) ==
  /\ ocrModel = Null
  /\ ~(storedKey # NoKey /\ initOk)
  /\ model = Null

ModelAfterEntry(initOk) ==
  IF ocrModel # Null THEN ocrModel
  ELSE IF storedKey # NoKey /\ initOk THEN DefaultModel
  ELSE model

ItemOutcome(ev, detail) == [ev |-> ev, detail |-> detail]

\* the entry a loop pushes in its catch for item i
Placeholder(driver, fs, names, i, message) ==
  ErrorResult(fs[i], NameAt(names, i), i,
              IF driver = "screen"
                THEN DisplayError(OcrErrorText(message, storedKey))
                ELSE OcrErrorText(message, storedKey))

\* Math.round(a / b) for non-negative a and positive b
Round(a, b) == (2 * a + b) \div (2 * b)

\* OCRService.combineResults
combineResults(rs) ==
  [totalDocuments |-> Len(rs),
   documents |-> [i \in 1..Len(rs) |->
                    [documentName |-> rs[i].documentName,
                     documentType |-> rs[i].documentType,
                     data |-> rs[i].extractedData,
                     timed |-> rs[i].timed]]]

Finish_StillProcessing(driver, proc) ==
  /\ processed' = proc
  /\ IF driver = "screen"
       THEN /\ opc' = "idle"
            /\ oDriver' = "none"
            /\ progress' = 100
            /\ results' = proc
            /\ combinedJson' = combineResults(proc)
            /\ isProcessing' = TRUE
       ELSE /\ opc' = "returned"
            /\ oDriver' = driver
            /\ UNCHANGED <<progress, results, combinedJson, isProcessing>>

\* the loop has pushed its last entry
Finish(driver, proc) ==
  /\ processed' = proc
  /\ IF driver = "screen"
       THEN /\ opc' = "idle"
            /\ oDriver' = "none"
            /\ progress' = 100
            /\ results' = proc
            /\ combinedJson' = combineResults(proc)
            /\ isProcessing' = FALSE
       ELSE /\ opc' = "returned"
            /\ oDriver' = driver
            /\ UNCHANGED <<progress, results, combinedJson, isProcessing>>

\* The loop reaches index i with proc pushed so far: it enters performOCR
\* for item i and suspends in the conversion to base64, or, when performOCR
\* throws before its first await, pushes the placeholder and goes on.
Advance(driver, fs, names, i, proc, outc, initOk) ==
  LET throws == i <= Len(fs) /\ EntryThrows(initOk)
      rest == [k \in 1..(Len(fs) - i + 1) |->
                 Placeholder(driver, fs, names, i + k - 1, "notinitialized")]
      restOut == [k \in 1..(Len(fs) - i + 1) |-> ItemOutcome("notinitialized", <<>>)]
  IN  /\ runFiles' = fs
      /\ runNames' = names
      /\ clearedInRun' = IF driver = "screen" /\ i = 1 THEN FALSE ELSE clearedInRun
      /\ ocrModel' = IF i > Len(fs) THEN ocrModel ELSE ModelAfterEntry(initOk)
      /\ IF i > Len(fs)
           THEN /\ Finish(driver, proc)
                /\ outcomes' = outc
                /\ oIdx' = i
           ELSE IF throws
             THEN /\ Finish(driver, proc \o rest)
                  /\ outcomes' = outc \o restOut
                  /\ oIdx' = Len(fs) + 1
             ELSE /\ opc' = "reading"
                  /\ oDriver' = driver
                  /\ oIdx' = i
                  /\ processed' = proc
                  /\ outcomes' = outc
                  /\ progress' = IF driver = "screen"
                                   THEN Round(100 * (i - 1), Len(fs)) ELSE progress
                  /\ IF driver = "screen" /\ i = 1
                       THEN /\ isProcessing' = TRUE
                            /\ results' = <<>>
                            /\ combinedJson' = NoCombined
                       ELSE UNCHANGED <<isProcessing, results, combinedJson>>

PushPlaceholder_Skip(proc, placeholder) == proc

\* the push in the catch of the loop
PushPlaceholder(proc, placeholder) == Append(proc, placeholder)

\* performOCR threw message for the current item
ItemFails(ev, detail, message) ==
  \E initOk \in BOOLEAN :
    Advance(oDriver, runFiles, runNames, oIdx + 1,
            PushPlaceholder(processed,
                            Placeholder(oDriver, runFiles, runNames, oIdx, message)),
            Append(outcomes, ItemOutcome(ev, detail)), initOk)

ocrReadDone_NoAwait ==
  /\ opc = "reading"
  /\ oIdx < Len(runFiles)
  /\ oIdx' = oIdx + 1
  /\ UNCHANGED <<ocrServiceVars, screenVars, oDriver, opc, runFiles, runNames,
                 processed, outcomes>>
  /\ UNCHANGED <<storedKey, files, fileNames, chatVars>>

\* fileToBase64 / imageToBase64 settles
ocrReadDone ==
  /\ opc = "reading"
  /\ \E ok \in BOOLEAN :
       IF ok
         THEN /\ opc' = "calling"
              /\ UNCHANGED <<ocrServiceVars, screenVars, oDriver, runFiles, runNames,
                             oIdx, processed, outcomes>>
         ELSE ItemFails("readfailed", <<>>, "generic")
  /\ UNCHANGED <<storedKey, files, fileNames, chatVars>>

\* generateContent settles with a response text
ocrModelResponds ==
  /\ opc = "calling"
  /\ \E text \in ResponseTexts :
       IF OcrThrowsOnData(text)
         THEN ItemFails("response", text, "generic")
         ELSE \E initOk \in BOOLEAN :
                Advance(oDriver, runFiles, runNames, oIdx + 1,
                        Append(processed,
                               OcrSuccess(runFiles[oIdx], NameAt(runNames, oIdx), text)),
                        Append(outcomes, ItemOutcome("response", text)), initOk)
  /\ UNCHANGED <<storedKey, files, fileNames, chatVars>>

\* generateContent rejects: the only model call performOCR makes for the item
\* has failed, and the catch block throws.  The outcome keeps the category
\* thrown and whether the message was of the not-found class.
ocrModelFails ==
  /\ opc = "calling"
  /\ \E msg \in ErrorMessages :
       ItemFails("modelerror",
                 <<OcrErrorCategory(msg)>> \o (IF "nf" \in msg THEN <<"nf">> ELSE <<>>),
                 OcrErrorCategory(msg))
  /\ UNCHANGED <<storedKey, files, fileNames, chatVars>>

\* OCRService.performBatchOCR called with files and optional names.  The
\* repository has no caller: an outside caller uses it in place of the
\* screen's own loop, on a screen that holds no files and no results.
performBatchOCR ==
  /\ oDriver = "none"
  /\ files = <<>>
  /\ results = <<>>
  /\ \E fs \in FileLists, named \in BOOLEAN, initOk \in BOOLEAN :
       Advance("batch", fs, IF named THEN ItemNames(fs) ELSE Null, 1, <<>>, <<>>, initOk)
  /\ UNCHANGED <<storedKey, files, fileNames, chatVars>>

\* the caller of performBatchOCR takes the returned array
batchCallerResume ==
  /\ oDriver = "batch"
  /\ opc = "returned"
  /\ oDriver' = "none"
  /\ opc' = "idle"
  /\ runFiles' = <<>>
  /\ runNames' = Null
  /\ oIdx' = 0
  /\ processed' = <<>>
  /\ outcomes' = <<>>
  /\ UNCHANGED <<ocrServiceVars, screenVars, chatVars>>

----------------------------------------------------------------------------
(* OCRInterface: the camera.  A MediaStream is described by whether it is   *)
(* still running; running counts the streams getUserMedia has delivered     *)
(* whose tracks have not been stopped, cameraStream tells whether the       *)
(* component's state holds one of them.                                     *)

VARIABLES
  cameraStream,     \* TRUE when the cameraStream state holds a stream
  showCamera,       \* showCamera state
  cameraFacing,     \* cameraFacing state
  isCameraLoading,  \* isCameraLoading state
  cpc,              \* startCamera in flight: "idle", "mobile", "desktop",
                    \* "fallback" (a getUserMedia request is pending) or
                    \* "timer" (the 100 ms timeout is pending)
  reqFacing,        \* facingMode argument of the startCamera call in flight
  mounted,          \* the component is mounted
  running           \* number of delivered streams not stopped yet

camVars ==
  <<cameraStream, showCamera, cameraFacing, isCameraLoading, cpc, reqFacing,
    mounted, running>>

InitCam ==
  /\ cameraStream = FALSE
  /\ showCamera = FALSE
  /\ cameraFacing = "user"
  /\ isCameraLoading = FALSE
  /\ cpc = "idle"
  /\ reqFacing = "user"
  /\ mounted = TRUE
  /\ running = 0

\* cameraStream.getTracks().forEach(track => track.stop()) on the stream
\* the state holds, if any
StopHeldStream == running' = IF cameraStream THEN running - 1 ELSE running

\* startCamera(facingMode) up to its first getUserMedia request
startCameraWith(facingMode) ==
  /\ mounted
  /\ cpc = "idle"
  /\ isCameraLoading' = TRUE
  /\ StopHeldStream
  /\ cameraStream' = FALSE
  /\ reqFacing' = facingMode
  /\ \E isMobile \in BOOLEAN : cpc' = IF isMobile THEN "mobile" ELSE "desktop"
  /\ UNCHANGED <<showCamera, cameraFacing, mounted>>

\* the Start Camera button
startCamera ==
  /\ ~showCamera
  /\ ~isCameraLoading
  /\ startCameraWith(cameraFacing)

\* the Switch button
switchCamera ==
  /\ showCamera
  /\ ~isCameraLoading
  /\ startCameraWith(IF cameraFacing = "user" THEN "environment" ELSE "user")

\* the body of stopCamera
StopCameraBody ==
  /\ StopHeldStream
  /\ cameraStream' = FALSE
  /\ showCamera' = FALSE
  /\ UNCHANGED <<cameraFacing, isCameraLoading, cpc, reqFacing, mounted>>

\* the Stop Camera button
stopCamera ==
  /\ mounted
  /\ showCamera
  /\ ~isCameraLoading
  /\ StopCameraBody

\* a pending getUserMedia request settles.  The state setters of a
\* component that has been unmounted do nothing; the replaced stream of a
\* mounted one is stopped by the cleanup of the cameraStream effect.
getUserMediaDone ==
  /\ cpc \in {"mobile", "desktop", "fallback"}
  /\ \E ok \in BOOLEAN :
       IF ok
         THEN /\ cpc' = "timer"
              /\ running' = IF mounted /\ cameraStream THEN running ELSE running + 1
              /\ IF mounted
                   THEN /\ cameraStream' = TRUE
                        /\ showCamera' = TRUE
                        /\ cameraFacing' = reqFacing
                   ELSE UNCHANGED <<cameraStream, showCamera, cameraFacing>>
              /\ UNCHANGED <<isCameraLoading, reqFacing, mounted>>
         ELSE IF cpc = "desktop"
           THEN /\ cpc' = "fallback"
                /\ UNCHANGED <<cameraStream, showCamera, cameraFacing, isCameraLoading,
                               reqFacing, mounted, running>>
           ELSE /\ cpc' = "idle"
                /\ IF mounted
                     THEN isCameraLoading' = FALSE /\ showCamera' = FALSE
                     ELSE UNCHANGED <<isCameraLoading, showCamera>>
                /\ UNCHANGED <<cameraStream, cameraFacing, reqFacing, mounted, running>>

\* the timeout callback of startCamera and the video events it waits for
cameraTimer ==
  /\ cpc = "timer"
  /\ cpc' = "idle"
  /\ isCameraLoading' = IF mounted THEN FALSE ELSE isCameraLoading
  /\ UNCHANGED <<cameraStream, showCamera, cameraFacing, reqFacing, mounted, running>>

\* the component is unmounted: the cleanup of the cameraStream effect runs
cameraTeardown ==
  /\ mounted
  /\ mounted' = FALSE
  /\ StopHeldStream
  /\ cameraStream' = FALSE
  /\ UNCHANGED <<showCamera, cameraFacing, isCameraLoading, cpc, reqFacing>>

----------------------------------------------------------------------------
(* OCRInterface *)

\* handleProcessOCR up to its first await
handleProcessOCR ==
  /\ oDriver = "none"
  /\ ~isProcessing
  /\ Len(files) > 0
  /\ ocrModel # Null \/ model # Null
  /\ \E initOk \in BOOLEAN :
       Advance("screen", files, fileNames, 1, <<>>, <<>>, initOk)
  /\ UNCHANGED <<storedKey, files, fileNames, chatVars>>

onDrop ==
  /\ \E f \in {x \in FilePool : x.kind = "file"} :
       /\ Len(files) < MaxFiles
       /\ files' = Append(files, f)
       /\ fileNames' = Append(fileNames, f.name)
  /\ UNCHANGED <<ocrServiceVars, isProcessing, progress, results, combinedJson,
                 clearedInRun, runVars, chatVars>>

\* the Capture button, on a video that is ready
capturePhoto ==
  /\ mounted
  /\ showCamera
  /\ ~isCameraLoading
  /\ cameraStream
  /\ \E f \in {x \in FilePool : x.kind = "camera"} :
       /\ Len(files) < MaxFiles
       /\ files' = Append(files, f)
       /\ fileNames' = Append(fileNames, f.name)
  /\ StopCameraBody
  /\ UNCHANGED <<ocrServiceVars, isProcessing, progress, results, combinedJson,
                 clearedInRun, runVars, chatVars>>

removeFile ==
  /\ \E index \in 1..Len(files) :
       /\ files' = RemoveAt(files, index)
       /\ fileNames' = RemoveAt(fileNames, index)
  /\ UNCHANGED <<ocrServiceVars, isProcessing, progress, results, combinedJson,
                 clearedInRun, runVars, chatVars>>

\* the Clear All button of the files list, shown while files are listed
handleClear ==
  /\ Len(files) > 0
  /\ files' = <<>>
  /\ fileNames' = <<>>
  /\ results' = <<>>
  /\ combinedJson' = NoCombined
  /\ progress' = 0
  /\ clearedInRun' = (oDriver = "screen")
  /\ UNCHANGED <<ocrServiceVars, isProcessing, runVars, chatVars>>

\* initializeServices of the mount effect and of the interval
initializeServices ==
  /\ storedKey # NoKey
  /\ IF model = Null THEN initialize ELSE UNCHANGED chatVars
  /\ \E ocrOk \in BOOLEAN :
       ocrModel' = IF ocrOk THEN DefaultModel
                   ELSE IF ocrModel = Null THEN model' ELSE Null
  /\ UNCHANGED storedKey

\* the interval finds a stored key and neither service initialized
ocrIntervalCheck ==
  /\ ocrModel = Null
  /\ model = Null
  /\ initializeServices
  /\ UNCHANGED <<screenVars, runVars>>

\* the screen is opened again while the services are alive
ocrMount ==
  /\ oDriver = "none"
  /\ ocrModel # Null \/ model # Null
  /\ initializeServices
  /\ files' = <<>>
  /\ fileNames' = <<>>
  /\ isProcessing' = FALSE
  /\ progress' = 0
  /\ results' = <<>>
  /\ combinedJson' = NoCombined
  /\ clearedInRun' = FALSE
  /\ cpc = "idle"
  /\ mounted
  /\ StopHeldStream
  /\ cameraStream' = FALSE
  /\ showCamera' = FALSE
  /\ cameraFacing' = "user"
  /\ isCameraLoading' = FALSE
  /\ UNCHANGED <<runVars, cpc, reqFacing, mounted>>

\* Index.handleApiKeySubmit: the key is stored when initialize succeeded
handleApiKeySubmit ==
  /\ initialize
  /\ storedKey' = IF model' # Null /\ modelName' = DefaultModel /\ model' = DefaultModel
                    THEN StoredKey ELSE storedKey
  /\ UNCHANGED <<ocrModel, screenVars, runVars>>

\* the browser reloads the page: only localStorage survives
pageReload ==
  /\ storedKey # NoKey
  /\ genAI' = FALSE
  /\ model' = Null
  /\ modelName' = DefaultModel
  /\ documents' = <<>>
  /\ messages' = <<>>
  /\ isLoading' = FALSE
  /\ error' = Null
  /\ pc' = "idle"
  /\ callDocs' = <<>>
  /\ contentParts' = <<>>
  /\ errorMessage' = {}
  /\ lastFailure' = "none"
  /\ fbIdx' = 0
  /\ probeIdx' = 0
  /\ attempts' = <<>>
  /\ result' = NoResult
  /\ adopted' = Null
  /\ firstAdopted' = Null
  /\ initSinceAttempt' = FALSE
  /\ ocrModel' = Null
  /\ files' = <<>>
  /\ fileNames' = <<>>
  /\ isProcessing' = FALSE
  /\ progress' = 0
  /\ results' = <<>>
  /\ combinedJson' = NoCombined
  /\ clearedInRun' = FALSE
  /\ oDriver' = "none"
  /\ opc' = "idle"
  /\ runFiles' = <<>>
  /\ runNames' = Null
  /\ oIdx' = 0
  /\ processed' = <<>>
  /\ outcomes' = <<>>
  /\ cameraStream' = FALSE
  /\ showCamera' = FALSE
  /\ cameraFacing' = "user"
  /\ isCameraLoading' = FALSE
  /\ cpc' = "idle"
  /\ reqFacing' = "user"
  /\ mounted' = TRUE
  /\ running' = 0
  /\ UNCHANGED storedKey

----------------------------------------------------------------------------
(* DocumentService: data.  A MIME type is a sequence of the words and       *)
(* separators it is made of, so that String.includes of a keyword is the    *)
(* search the code performs.                                                *)

MaxPages == 2

OfficePrefix == <<"application", "/", "vnd", ".", "openxmlformats", "-", "office", "document", ".">>

\* the types DocumentUpload accepts, and two it does not
MimeTypes ==
  { <<"application", "/", "pdf">>,
    <<"application", "/", "ms", "word">>,
    OfficePrefix \o <<"word", "processingml", ".", "document">>,
    <<"application", "/", "vnd", ".", "ms", "-", "excel">>,
    OfficePrefix \o <<"spread", "sheet", "ml", ".", "sheet">>,
    <<"application", "/", "vnd", ".", "ms", "-", "powerpoint">>,
    OfficePrefix \o <<"presentation", "ml", ".", "presentation">>,
    <<"text", "/", "plain">>,
    <<"application", "/", "json">>,
    <<"image", "/", "png">>,
    <<"application", "/", "zip">>,
    <<>> }

XFile(n, t, sz) == [name |-> n, type |-> t, size |-> sz]

FileSizes == {512, 3000}

XFilePool == { XFile("report", t, sz) : t \in MimeTypes, sz \in FileSizes }

\* the branch of extractTextContent a type takes
ReaderFor(type) ==
  LET fileType == toLowerCase(type)
      has(w) == includes(fileType, <<w>>)
  IN  IF has("text") \/ has("javascript") \/ has("json") THEN "readTextFile"
      ELSE IF has("pdf") THEN "extractPdfText"
      ELSE IF has("image") THEN "convertImageToBase64"
      ELSE IF has("word") \/ has("document") THEN "extractWordText"
      ELSE IF has("excel") \/ has("sheet") THEN "extractExcelText"
      ELSE IF has("presentation") \/ has("powerpoint") THEN "extractPowerPointText"
      ELSE "unsupported"

\* Math.round(file.size / 1024) as it is printed
SizeKB(f) == ToString(Round(f.size, 1024))

UnsupportedMessage(f) ==
  <<"Document: ", f.name, " (", SizeKB(f),
    " KB) - Content extraction not supported for this file type">>

ErrorReadingMessage(f) == <<"Error reading file: ", f.name>>

PdfContent(f, text) == <<"PDF Content from ", f.name, ":", "\n", "\n">> \o trim(text)

PdfOcrContent(f, text) ==
  <<"PDF Content from ", f.name, " (OCR Processed):", "\n", "\n">> \o trim(text)

ImageBasedMessage(f) ==
  <<"PDF file: ", f.name, " (", SizeKB(f), " KB)", "\n", "\n",
    "This PDF appears to be image-based and OCR processing failed.">>

PdfErrors == {"PasswordException", "InvalidPDFException", "worker", "fetch", "other"}

PdfErrorMessage(f, e) ==
  <<"PDF file: ", f.name, " (", SizeKB(f), " KB)", "\n", "\n", "Note: ", e>>

OfficeLabel(reader) ==
  CASE reader = "extractWordText" -> "Word"
    [] reader = "extractExcelText" -> "Excel"
    [] OTHER -> "PowerPoint"

OfficeContent(reader, f, text) ==
  <<OfficeLabel(reader), " Document Content from ", f.name, ":", "\n">> \o trim(text)

OfficeEmptyMessage(reader, f) ==
  <<OfficeLabel(reader), " file: ", f.name, " (", SizeKB(f), " KB)", "\n", "\n",
    "Note: no extractable text">>

OfficeFailedMessage(reader, f) ==
  <<OfficeLabel(reader), " file: ", f.name, " (", SizeKB(f), " KB)", "\n", "\n",
    "Note: Failed to extract">>

\* what a library read yields: text, white space only, or nothing
ExtractedTexts == {<<"t">>, <<" ", "\n">>, <<>>}

OcrErrorMarker(pageNumber) ==
  <<"[Error processing page ", ToString(pageNumber), " with OCR]">>

Resolved(value) == [status |-> "resolved", value |-> value]

Rejected == [status |-> "rejected", value |-> <<>>]

Unsettled == [status |-> "none", value |-> <<>>]

extractTextContentCatch_Rethrow(f, inner) == inner

\* the try/catch of extractTextContent around the awaited reader
extractTextContentCatch(f, inner) ==
  IF inner.status = "rejected" THEN Resolved(ErrorReadingMessage(f)) ELSE inner

\* the try/catch of extractPdfText around extractPdfTextWithOCR
OcrFallbackCatch(f, inner) ==
  IF inner.status = "rejected" THEN Resolved(ImageBasedMessage(f)) ELSE inner

----------------------------------------------------------------------------
(* DocumentService: state *)

VARIABLES
  file,          \* the File extractTextContent was called with, or Null
  xpc,           \* where the call is suspended
  numPages,      \* pdf.numPages
  xPage,         \* loop index i of the page loop that is running
  fullText,      \* fullText of extractPdfText
  ocrFullText,   \* fullText of extractPdfTextWithOCR
  ocrStage,      \* how far the OCR fallback got
  ocrLog,        \* what processPageWithOCR met on each page
  xResult        \* how the promise of extractTextContent settled

docVars == <<file, xpc, numPages, xPage, fullText, ocrFullText, ocrStage, ocrLog, xResult>>

InitDoc ==
  /\ file = Null
  /\ xpc = "idle"
  /\ numPages = 0
  /\ xPage = 0
  /\ fullText = <<>>
  /\ ocrFullText = <<>>
  /\ ocrStage = "none"
  /\ ocrLog = <<>>
  /\ xResult = Unsettled

----------------------------------------------------------------------------
(* DocumentService.extractTextContent *)

\* the awaited reader settled with inner
ReaderSettles(inner) ==
  /\ xResult' = extractTextContentCatch(file, inner)
  /\ xpc' = "returned"

extractTextContent ==
  /\ xpc = "idle"
  /\ \E f \in XFilePool :
       /\ file' = f
       /\ IF ReaderFor(f.type) = "unsupported"
            THEN /\ xResult' = Resolved(UnsupportedMessage(f))
                 /\ xpc' = "returned"
            ELSE /\ xResult' = Unsettled
                 /\ xpc' = "reading"
  /\ numPages' = 0
  /\ xPage' = 0
  /\ fullText' = <<>>
  /\ ocrFullText' = <<>>
  /\ ocrStage' = "none"
  /\ ocrLog' = <<>>

\* the FileReader of the chosen reader fires onload or onerror
fileReaderDone ==
  /\ xpc = "reading"
  /\ \E ev \in {"load", "loadEmpty", "error"} :
       LET reader == ReaderFor(file.type) IN
       IF ev = "error" THEN ReaderSettles(Rejected)
       ELSE IF reader = "readTextFile"
         THEN \E text \in ExtractedTexts :
                ReaderSettles(Resolved(IF ev = "load" THEN text ELSE <<>>))
       ELSE IF ev = "loadEmpty" THEN ReaderSettles(Rejected)
       ELSE IF reader = "convertImageToBase64"
         THEN ReaderSettles(Resolved(<<"data:", "image", "/", "png", ";base64,", "d">>))
       ELSE IF reader = "extractExcelText"
         THEN \/ \E text \in ExtractedTexts :
                   ReaderSettles(Resolved(
                     IF trim(text) # <<>> THEN OfficeContent(reader, file, text)
                     ELSE OfficeEmptyMessage(reader, file)))
              \/ ReaderSettles(Resolved(OfficeFailedMessage(reader, file)))
       ELSE /\ xpc' = IF reader = "extractPdfText" THEN "getDocument" ELSE "library"
            /\ UNCHANGED xResult
  /\ UNCHANGED <<file, numPages, xPage, fullText, ocrFullText, ocrStage, ocrLog>>

\* mammoth.extractRawText, or JSZip and the slide loop, settles
officeLibraryDone ==
  /\ xpc = "library"
  /\ LET reader == ReaderFor(file.type) IN
       \/ \E text \in ExtractedTexts :
            ReaderSettles(Resolved(
              IF trim(text) # <<>> THEN OfficeContent(reader, file, text)
              ELSE OfficeEmptyMessage(reader, file)))
       \/ ReaderSettles(Resolved(OfficeFailedMessage(reader, file)))
  /\ UNCHANGED <<file, numPages, xPage, fullText, ocrFullText, ocrStage, ocrLog>>

\* extractPdfText: pdfjsLib.getDocument settles
pdfGetDocumentDone ==
  /\ xpc = "getDocument"
  /\ \/ \E n \in 1..MaxPages :
          /\ numPages' = n
          /\ xPage' = 1
          /\ xpc' = "pageText"
          /\ UNCHANGED xResult
     \/ \E e \in PdfErrors :
          /\ ReaderSettles(Resolved(PdfErrorMessage(file, e)))
          /\ UNCHANGED <<numPages, xPage>>
  /\ UNCHANGED <<file, fullText, ocrFullText, ocrStage, ocrLog>>

\* extractPdfText: getPage and getTextContent of page xPage settle
pdfPageTextDone ==
  /\ xpc = "pageText"
  /\ \/ \E pageText \in ExtractedTexts :
          LET text == fullText \o pageText \o <<"\n">> IN
          /\ fullText' = text
          /\ IF xPage < numPages
               THEN /\ xPage' = xPage + 1
                    /\ UNCHANGED <<xpc, xResult, ocrStage>>
               ELSE IF trim(text) # <<>>
                 THEN /\ ReaderSettles(Resolved(PdfContent(file, text)))
                      /\ UNCHANGED <<xPage, ocrStage>>
                 ELSE /\ xpc' = "ocrReading"
                      /\ ocrStage' = "reading"
                      /\ UNCHANGED <<xPage, xResult>>
     \/ /\ ReaderSettles(Resolved(PdfErrorMessage(file, "other")))
        /\ UNCHANGED <<fullText, xPage, ocrStage>>
  /\ UNCHANGED <<file, numPages, ocrFullText, ocrLog>>

\* extractPdfTextWithOCR: its FileReader fires
pdfOcrReaderDone ==
  /\ xpc = "ocrReading"
  /\ \E ev \in {"load", "loadEmpty", "error"} :
       IF ev = "load"
         THEN /\ xpc' = "ocrGetDocument"
              /\ ocrStage' = "loading"
              /\ UNCHANGED xResult
         ELSE /\ ReaderSettles(OcrFallbackCatch(file, Rejected))
              /\ ocrStage' = "readfailed"
  /\ UNCHANGED <<file, numPages, xPage, fullText, ocrFullText, ocrLog>>

\* extractPdfTextWithOCR: pdfjsLib.getDocument settles
pdfOcrGetDocumentDone ==
  /\ xpc = "ocrGetDocument"
  /\ \/ /\ xpc' = "ocrPage"
        /\ ocrStage' = "pages"
        /\ xPage' = 1
        /\ UNCHANGED xResult
     \/ /\ ReaderSettles(OcrFallbackCatch(file, Rejected))
        /\ ocrStage' = "loadfailed"
        /\ UNCHANGED xPage
  /\ UNCHANGED <<file, numPages, fullText, ocrFullText, ocrLog>>

\* the end of extractPdfTextWithOCR once every page was processed
OcrSettles(f, text) ==
  IF trim(text) # <<>> THEN Resolved(PdfOcrContent(f, text)) ELSE Rejected

\* processPageWithOCR of page xPage returns
processPageWithOCR ==
  /\ xpc = "ocrPage"
  /\ \E met \in {"text", "blank", "threw"} :
       LET pageText == CASE met = "text" -> trim(<<"o", "\n">>)
                         [] met = "blank" -> trim(<<" ", "\n">>)
                         [] OTHER -> OcrErrorMarker(xPage)
           text == ocrFullText \o pageText \o <<"\n", "\n">>
       IN  /\ ocrFullText' = text
           /\ ocrLog' = Append(ocrLog, met)
           /\ IF xPage < numPages
                THEN /\ xPage' = xPage + 1
                     /\ UNCHANGED <<xpc, xResult>>
                ELSE /\ ReaderSettles(OcrFallbackCatch(file, OcrSettles(file, text)))
                     /\ UNCHANGED xPage
  /\ UNCHANGED <<file, numPages, fullText, ocrStage>>

\* the caller of extractTextContent takes the string
extractCallerResume ==
  /\ xpc = "returned"
  /\ file' = Null
  /\ xpc' = "idle"
  /\ numPages' = 0
  /\ xPage' = 0
  /\ fullText' = <<>>
  /\ ocrFullText' = <<>>
  /\ ocrStage' = "none"
  /\ ocrLog' = <<>>
  /\ xResult' = Unsettled

----------------------------------------------------------------------------
(* Specifications *)

vars == <<chatVars, ocrVars, docVars, camVars>>

Init == InitChat /\ InitOCR /\ InitDoc /\ InitCam

Next ==
  \/ initialize /\ UNCHANGED <<ocrVars, docVars, camVars>>
  \/ queryDocuments /\ UNCHANGED <<ocrVars, docVars, camVars>>
  \/ PrimaryReturn /\ UNCHANGED <<ocrVars, docVars, camVars>>
  \/ FallbackReturn /\ UNCHANGED <<ocrVars, docVars, camVars>>
  \/ ProbeReturn /\ UNCHANGED <<ocrVars, docVars, camVars>>
  \/ RetryReturn /\ UNCHANGED <<ocrVars, docVars, camVars>>
  \/ callerResume /\ UNCHANGED <<ocrVars, docVars, camVars>>

Spec == Init /\ [][Next]_vars

NextPage ==
  \/ initialize /\ UNCHANGED <<ocrVars, docVars, camVars>>
  \/ handleFileUpload /\ UNCHANGED <<ocrVars, docVars, camVars>>
  \/ handleRemoveDocument /\ UNCHANGED <<ocrVars, docVars, camVars>>
  \/ handleClearDocuments /\ UNCHANGED <<ocrVars, docVars, camVars>>
  \/ handleSendMessage /\ UNCHANGED <<ocrVars, docVars, camVars>>
  \/ PrimaryReturn /\ UNCHANGED <<ocrVars, docVars, camVars>>
  \/ FallbackReturn /\ UNCHANGED <<ocrVars, docVars, camVars>>
  \/ ProbeReturn /\ UNCHANGED <<ocrVars, docVars, camVars>>
  \/ RetryReturn /\ UNCHANGED <<ocrVars, docVars, camVars>>
  \/ handleSendMessageResume /\ UNCHANGED <<ocrVars, docVars, camVars>>

SpecPage == Init /\ [][NextPage]_vars

NextOCR ==
  \/ handleApiKeySubmit /\ UNCHANGED <<docVars, camVars>>
  \/ pageReload /\ UNCHANGED docVars
  \/ ocrIntervalCheck /\ UNCHANGED <<docVars, camVars>>
  \/ ocrMount /\ UNCHANGED docVars
  \/ onDrop /\ UNCHANGED <<docVars, camVars>>
  \/ startCamera /\ UNCHANGED <<chatVars, ocrVars, docVars>>
  \/ getUserMediaDone /\ UNCHANGED <<chatVars, ocrVars, docVars>>
  \/ cameraTimer /\ UNCHANGED <<chatVars, ocrVars, docVars>>
  \/ capturePhoto /\ UNCHANGED docVars
  \/ removeFile /\ UNCHANGED <<docVars, camVars>>
  \/ handleClear /\ UNCHANGED <<docVars, camVars>>
  \/ handleProcessOCR /\ UNCHANGED <<docVars, camVars>>
  \/ performBatchOCR /\ UNCHANGED <<docVars, camVars>>
  \/ batchCallerResume /\ UNCHANGED <<docVars, camVars>>
  \/ ocrReadDone /\ UNCHANGED <<docVars, camVars>>
  \/ ocrModelResponds /\ UNCHANGED <<docVars, camVars>>
  \/ ocrModelFails /\ UNCHANGED <<docVars, camVars>>

SpecOCR == Init /\ [][NextOCR]_vars

NextDoc ==
  \/ extractTextContent /\ UNCHANGED <<chatVars, ocrVars, camVars>>
  \/ fileReaderDone /\ UNCHANGED <<chatVars, ocrVars, camVars>>
  \/ officeLibraryDone /\ UNCHANGED <<chatVars, ocrVars, camVars>>
  \/ pdfGetDocumentDone /\ UNCHANGED <<chatVars, ocrVars, camVars>>
  \/ pdfPageTextDone /\ UNCHANGED <<chatVars, ocrVars, camVars>>
  \/ pdfOcrReaderDone /\ UNCHANGED <<chatVars, ocrVars, camVars>>
  \/ pdfOcrGetDocumentDone /\ UNCHANGED <<chatVars, ocrVars, camVars>>
  \/ processPageWithOCR /\ UNCHANGED <<chatVars, ocrVars, camVars>>
  \/ extractCallerResume /\ UNCHANGED <<chatVars, ocrVars, camVars>>

SpecDoc == Init /\ [][NextDoc]_vars

NextCamera ==
  \/ startCamera /\ UNCHANGED <<chatVars, ocrVars, docVars>>
  \/ switchCamera /\ UNCHANGED <<chatVars, ocrVars, docVars>>
  \/ stopCamera /\ UNCHANGED <<chatVars, ocrVars, docVars>>
  \/ getUserMediaDone /\ UNCHANGED <<chatVars, ocrVars, docVars>>
  \/ cameraTimer /\ UNCHANGED <<chatVars, ocrVars, docVars>>
  \/ cameraTeardown /\ UNCHANGED <<chatVars, ocrVars, docVars>>
  \/ capturePhoto /\ UNCHANGED docVars
  \/ removeFile /\ UNCHANGED <<docVars, camVars>>
  \/ handleClear /\ UNCHANGED <<docVars, camVars>>

SpecCamera == Init /\ [][NextCamera]_vars

\* The OCR screen while the page stays open.  A pending file read or model
\* request of the running loop eventually settles.
NextScreen ==
  \/ handleApiKeySubmit /\ UNCHANGED <<docVars, camVars>>
  \/ onDrop /\ UNCHANGED <<docVars, camVars>>
  \/ removeFile /\ UNCHANGED <<docVars, camVars>>
  \/ handleClear /\ UNCHANGED <<docVars, camVars>>
  \/ handleProcessOCR /\ UNCHANGED <<docVars, camVars>>
  \/ ocrReadDone /\ UNCHANGED <<docVars, camVars>>
  \/ ocrModelResponds /\ UNCHANGED <<docVars, camVars>>
  \/ ocrModelFails /\ UNCHANGED <<docVars, camVars>>

PendingSettles ==
  (ocrReadDone \/ ocrModelResponds \/ ocrModelFails) /\ UNCHANGED <<docVars, camVars>>

SpecScreen == Init /\ [][NextScreen]_vars /\ WF_vars(PendingSettles)

\* performBatchOCR on a page whose localStorage holds any key
InitStoredKey ==
  /\ InitChat
  /\ storedKey \in StoredKeys
  /\ InitScreen
  /\ InitDoc
  /\ InitCam

NextStoredKey ==
  \/ performBatchOCR /\ UNCHANGED <<docVars, camVars>>
  \/ batchCallerResume /\ UNCHANGED <<docVars, camVars>>
  \/ ocrReadDone /\ UNCHANGED <<docVars, camVars>>
  \/ ocrModelResponds /\ UNCHANGED <<docVars, camVars>>
  \/ ocrModelFails /\ UNCHANGED <<docVars, camVars>>

SpecStoredKey == InitStoredKey /\ [][NextStoredKey]_vars

----------------------------------------------------------------------------
(* Properties of GeminiService.queryDocuments (Spec)                       *)

AttemptIdx == 1..Len(attempts)

PromptKinds == {"primary", "fallback", "retry"}

FallbackNamesTried ==
  LET fb == SelectSeq(attempts, LAMBDA a : a.kind = "fallback")
  IN  [i \in 1..Len(fb) |-> fb[i].model]

\* The fallback attempts of a call follow fallbackModels from its start,
\* leaving out at most its first name and only when the primary attempt
\* that failed was made on that name.
FallbackOrder ==
  \/ IsPrefix(FallbackNamesTried, fallbackModels)
  \/ /\ attempts # <<>>
     /\ attempts[1].model = fallbackModels[1]
     /\ IsPrefix(FallbackNamesTried, Tail(fallbackModels))

FallbackOnlyAfterNotFound ==
  FallbackNamesTried # <<>> =>
    /\ attempts[1].kind = "primary"
    /\ attempts[1].outcome = "fail"
    /\ "nf" \in errorMessage

\* A fallback attempt that answered is the last attempt of the call, the
\* call returns its answer, and its model is the current model.
FallbackSuccessEndsCall ==
  \A i \in AttemptIdx :
    (attempts[i].kind = "fallback" /\ attempts[i].outcome = "ok") =>
      /\ i = Len(attempts)
      /\ \A j \in 1..(i - 1) : attempts[j].outcome = "fail"
      /\ pc = "returned"
      /\ result.status = "ok"
      /\ result.answer = ReturnedAnswer(attempts[i].answer)
      /\ (~initSinceAttempt => (model = attempts[i].model /\ modelName = attempts[i].model))

C2_SamePromptContent ==
  \A i \in AttemptIdx :
    attempts[i].kind \in PromptKinds =>
      /\ attempts[1].kind = "primary"
      /\ attempts[i].parts = attempts[1].parts
      /\ attempts[i].parts = BuildContentParts(callDocs)

\* A call that went through fallback attempts and a retry on a discovered
\* model, with a prompt of several parts.
C2_Witness ==
  /\ \E i \in AttemptIdx : attempts[i].kind = "retry"
  /\ \E i \in AttemptIdx : attempts[i].kind = "fallback"
  /\ Len(contentParts) >= 3

\* Positions of the supplied documents whose lower-cased name occurs in the
\* lower-cased answer.
NamedIn(answer, ds) ==
  {i \in 1..Len(ds) :
     \E k \in 1..(Len(answer) + 1) :
       /\ k + Len(ds[i].name) - 1 <= Len(answer)
       /\ \A j \in 1..Len(ds[i].name) :
            LowerChar(answer[k + j - 1]) = LowerChar(ds[i].name[j])}

\* s lists, in document order, the names of the documents at positions I.
ListsNamesAt(s, ds, I) ==
  /\ Len(s) = Cardinality(I)
  /\ \E f \in [1..Len(s) -> I] :
       /\ \A a, b \in 1..Len(s) : a < b => f[a] < f[b]
       /\ \A a \in 1..Len(s) : s[a] = ds[f[a]].name

\* C4: the sources of every returned answer are, in document order, the
\* names of the documents whose lower-cased name occurs in the lower-cased
\* answer text when there is one, and the names of all documents otherwise;
\* they are not empty when a document was supplied.
C4_SourcesRule ==
  (pc = "returned" /\ result.status = "ok") =>
    LET answer == attempts[Len(attempts)].answer
        named == NamedIn(answer, callDocs)
    IN  /\ named # {} => ListsNamesAt(result.sources, callDocs, named)
        /\ named = {} => ListsNamesAt(result.sources, callDocs, 1..Len(callDocs))
        /\ Len(callDocs) > 0 => result.sources # <<>>

\* An answer naming only the second of two documents, in another case.
C4_Witness ==
  /\ pc = "returned"
  /\ result.status = "ok"
  /\ Len(callDocs) = 2
  /\ callDocs[1].name # callDocs[2].name
  /\ attempts[Len(attempts)].answer = <<"y", "b", "X">>
  /\ result.sources = <<NameBx>>

\* A document that puts no material of its own into the prompt.
NoMaterial(d) ==
  \/ ~hasContent(d)
  \/ (typeIncludesPdf(d.type) /\ d.marker)
  \/ (~typeStartsWithImage(d.type) /\ d.len <= MinContentLength)

\* C9: when no supplied document contributes material to the prompt, an
\* initialized queryDocuments raises the no-readable-content error and makes
\* no model call.
C9_NoMaterialNoModelCall ==
  (pc # "idle" /\ result.error # "notinitialized" /\ \A i \in 1..Len(callDocs) : NoMaterial(callDocs[i])) =>
    /\ attempts = <<>>
    /\ pc = "returned"
    /\ result.status = "threw"
    /\ result.cause = "noreadable"

TriedAndFailed(name, kinds) ==
  \E i \in AttemptIdx :
    /\ attempts[i].model = name
    /\ attempts[i].kind \in kinds
    /\ attempts[i].outcome = "fail"

TerminalThrown == pc = "returned" /\ result.error = "terminal"

\* C10 (as amended): the terminal error is raised only after every fallback
\* name has been sent the prompt in the call and failed, and after either
\* every discovery candidate failed its test call or the retry of the prompt
\* on the first candidate that answered its test call failed.
C10_TerminalAfterExhaustion ==
  TerminalThrown =>
    /\ \A n \in Range(fallbackModels) : TriedAndFailed(n, {"primary", "fallback"})
    /\ \/ \A c \in Range(modelsToTry) : TriedAndFailed(c, {"probe"})
       \/ \E i \in AttemptIdx :
            /\ attempts[i].kind = "probe"
            /\ attempts[i].outcome = "ok"
            /\ \A j \in 1..(i - 1) : attempts[j].outcome = "fail"
            /\ i + 1 = Len(attempts)
            /\ attempts[i + 1].kind = "retry"
            /\ attempts[i + 1].model = attempts[i].model
            /\ attempts[i + 1].outcome = "fail"

\* C10 as stated: terminal only after every fallback name and every
\* discovery candidate has been tried and failed.
C10_EveryCandidateTried ==
  TerminalThrown =>
    /\ \A n \in Range(fallbackModels) : TriedAndFailed(n, {"primary", "fallback"})
    /\ \A c \in Range(modelsToTry) : TriedAndFailed(c, {"probe"})

\* The terminal error after the retry on a discovered model failed.
C10_Witness ==
  /\ TerminalThrown
  /\ attempts[Len(attempts)].kind = "retry"
  /\ attempts[Len(attempts)].model = modelsToTry[2]

----------------------------------------------------------------------------
(* One short text file on the chat page *)

InvoiceDoc == Doc(NameA, "text/plain", InvoiceLength, FALSE, FALSE)

IsInvoiceTextPart(p) ==
  p.kind = "text" /\ p.names = <<InvoiceDoc.name>> /\ p.len = InvoiceDoc.len

\* C8 as stated: with the invoice text file as the only uploaded document,
\* every model call of a sent question carries the file's text as a content
\* part, and the assistant message appended for it cites the file's name.
C8_InvoiceTextSentAndCited ==
  (pc # "idle" /\ callDocs = <<InvoiceDoc>>) =>
    /\ \A i \in 1..Len(attempts) :
         attempts[i].kind \in PromptKinds =>
           \E k \in 1..Len(attempts[i].parts) : IsInvoiceTextPart(attempts[i].parts[k])
    /\ (pc = "returned" /\ result.status = "ok") =>
         InvoiceDoc.name \in Range(result.sources)

\* what the page does with the invoice file: the model is called, and the
\* call carries the prompt and the cannot-analyze note only
C8_InvoiceOnlyNoted ==
  /\ pc = "primary"
  /\ isLoading
  /\ callDocs = <<InvoiceDoc>>
  /\ Len(attempts) = 1
  /\ [k \in 1..Len(attempts[1].parts) |-> attempts[1].parts[k].kind] = <<"prompt", "note">>

----------------------------------------------------------------------------
(* Batch OCR: one result per input *)

OutcomeSucceeded(o) == o.ev = "response" /\ ~OcrThrowsOnData(o.detail)

IsErrorShaped(r) ==
  /\ ~r.timed
  /\ r.rawText = Undefined
  /\ \E k \in 1..Len(r.extractedData.kids) : r.extractedData.kids[k].k = "error"

\* entry r is what input i of the list fs, named by names, turned into
CarriesOutcome(r, fs, names, i, o) ==
  /\ r.documentType = IF fs[i].kind = "camera" THEN "image/png" ELSE fs[i].type
  /\ IF OutcomeSucceeded(o)
       THEN /\ r.timed
            /\ r.documentName = OcrFileName(fs[i], NameAt(names, i))
            /\ r.extractedData = ExtractedData(CleanResponse(o.detail))
       ELSE /\ IsErrorShaped(r)
            /\ r.documentName = IF names = Null THEN "document-" \o ToString(i) ELSE names[i]

OnePerInput(rs) ==
  /\ Len(rs) = Len(runFiles)
  /\ Len(outcomes) = Len(runFiles)
  /\ \A i \in 1..Len(rs) : CarriesOutcome(rs[i], runFiles, runNames, i, outcomes[i])

\* C3: performBatchOCR returns exactly one result per input, result i carrying
\* the outcome of input i, for every list of inputs and every pattern of
\* success and failure; handleProcessOCR records exactly one result per file
\* of the list it started with, in that list's order, whatever happens to the
\* screen's list while it runs.
C3_OneResultPerInput ==
  /\ (oDriver = "batch" /\ opc = "returned") => OnePerInput(processed)
  /\ (oDriver # "batch" /\ results # <<>>) => OnePerInput(results)
  /\ opc \in {"reading", "calling"} =>
       /\ Len(processed) = oIdx - 1
       /\ \A i \in 1..Len(processed) :
            CarriesOutcome(processed[i], runFiles, runNames, i, outcomes[i])

\* a batch of two returned: the first input failed, the second was read
C3_Witness ==
  /\ oDriver = "batch"
  /\ opc = "returned"
  /\ Len(runFiles) = 2
  /\ Len(processed) = 2
  /\ IsErrorShaped(processed[1])
  /\ processed[2].timed
  /\ runFiles[1] # runFiles[2]

\* the screen finished a run of two files after its list was emptied
C3_ScreenWitness ==
  /\ oDriver = "none"
  /\ Len(results) = 2
  /\ Len(runFiles) = 2
  /\ files = <<>>
  /\ IsErrorShaped(results[2])
  /\ results[1].timed

----------------------------------------------------------------------------
(* performOCR: fenced and unparsable responses *)

IsWsOnly(s) == \A i \in 1..Len(s) : IsWs(s[i])

\* s is an opening fence marker between optional whitespace
IsOpenFence(s) ==
  \E i \in 1..Len(s) :
    /\ IsWsOnly(SubSeq(s, 1, i - 1))
    /\ \/ /\ i + 2 <= Len(s)
          /\ SubSeq(s, i, i + 2) = Fence
          /\ IsWsOnly(SubSeq(s, i + 3, Len(s)))
       \/ /\ i + 3 <= Len(s)
          /\ SubSeq(s, i, i + 3) = FenceJson
          /\ IsWsOnly(SubSeq(s, i + 4, Len(s)))

\* s is a closing fence between optional whitespace
IsCloseFence(s) ==
  \E i \in 1..Len(s) :
    /\ IsWsOnly(SubSeq(s, 1, i - 1))
    /\ i + 2 <= Len(s)
    /\ SubSeq(s, i, i + 2) = Fence
    /\ IsWsOnly(SubSeq(s, i + 3, Len(s)))

\* the JSON texts a response wraps in a code fence
FencedJson(text) ==
  { SubSeq(text, p[1], p[2]) :
      p \in { q \in (1..Len(text)) \X (1..Len(text)) :
                /\ q[1] <= q[2]
                /\ IsOpenFence(SubSeq(text, 1, q[1] - 1))
                /\ IsCloseFence(SubSeq(text, q[2] + 1, Len(text)))
                /\ JSONparse(SubSeq(text, q[1], q[2])).ok } }

Unparsable(text) == ~JSONparse(text).ok /\ FencedJson(text) = {}

\* the three notions above, tabulated over the response texts
FencedValues ==
  [t \in ResponseTexts |-> {JSONparse(inner).val : inner \in FencedJson(t)}]

UnparsableTexts == {t \in ResponseTexts : Unparsable(t)}

CleanedText == [t \in ResponseTexts |-> CleanResponse(t)]

ParseFailureData(raw) ==
  JObject(<<JMember("rawText", JString(raw)), JMember("error", JString(ParseFailureNote))>>)

\* the results of the current loop that came from a model response
ResponseEntries == {i \in 1..Len(processed) : outcomes[i].ev = "response"}

FencedJsonParsed ==
  \A i \in ResponseEntries :
    \A val \in FencedValues[outcomes[i].detail] :
      val.t # "null" =>
        /\ processed[i].timed
        /\ processed[i].extractedData = val

\* C5 as stated: fenced JSON is parsed; an unparsable response yields
\* {rawText: the response text, error: note}.
C5_RawTextIsResponseText ==
  /\ FencedJsonParsed
  /\ \A i \in ResponseEntries :
       outcomes[i].detail \in UnparsableTexts =>
         /\ processed[i].timed
         /\ processed[i].extractedData = ParseFailureData(outcomes[i].detail)

\* C5: performOCR returns, for a response that is JSON in a json or plain
\* code fence, extractedData equal to the parsed inner JSON; for a response
\* that cannot be parsed it returns, without throwing, extractedData
\* {rawText, error: note} whose rawText is the response text after trimming
\* and fence stripping.
C5_FencedParsedElseCleanedRawText ==
  /\ FencedJsonParsed
  /\ \A i \in ResponseEntries :
       outcomes[i].detail \in UnparsableTexts =>
         /\ processed[i].timed
         /\ processed[i].extractedData = ParseFailureData(CleanedText[outcomes[i].detail])
         /\ processed[i].rawText = CleanedText[outcomes[i].detail]

\* one loop read a fenced JSON response and then an unparsable response
\* with surrounding whitespace
C5_Witness ==
  /\ Len(processed) = 2
  /\ ResponseEntries = {1, 2}
  /\ FencedJson(outcomes[1].detail) # {}
  /\ processed[1].extractedData.t = "object"
  /\ Unparsable(outcomes[2].detail)
  /\ CleanResponse(outcomes[2].detail) # outcomes[2].detail
  /\ processed[2].timed

----------------------------------------------------------------------------
(* Text extraction never rejects *)

CategoryKeywords ==
  {"text", "javascript", "json", "pdf", "image", "word", "document", "excel", "sheet",
   "presentation", "powerpoint"}

MatchesNoCategory(type) ==
  \A w \in CategoryKeywords : ~includes(toLowerCase(type), <<w>>)

IsString(value) == \A i \in 1..Len(value) : value[i] \in STRING

\* C6: extractTextContent resolves to a string and never rejects, whatever the
\* MIME type and whatever the file read or the format reader does; for a type
\* that matches no supported category the string is the placeholder, which
\* contains the file's name and its size.
C6_AlwaysResolvesToString ==
  xpc = "returned" =>
    /\ xResult.status = "resolved"
    /\ IsString(xResult.value)
    /\ MatchesNoCategory(file.type) =>
         /\ xResult.value = UnsupportedMessage(file)
         /\ includes(xResult.value, <<file.name>>)
         /\ includes(xResult.value, <<ToString(Round(file.size, 1024)), " KB) - Content extraction not supported for this file type">>)

\* the FileReader of a spreadsheet failed and the call still resolved
C6_Witness ==
  /\ xpc = "returned"
  /\ ReaderFor(file.type) = "extractWordText"
  /\ includes(file.type, <<"sheet">>)
  /\ xResult = Resolved(ErrorReadingMessage(file))

\* a type outside every category got the placeholder
C6_PlaceholderWitness ==
  /\ xpc = "returned"
  /\ file.type = <<"application", "/", "zip">>
  /\ xResult.status = "resolved"
  /\ includes(xResult.value, <<"report", " (", "3">>)

----------------------------------------------------------------------------
(* PDF with an empty text layer *)

OcrProducedText == ocrStage = "pages" /\ \E i \in 1..Len(ocrLog) : ocrLog[i] = "text"

\* C7 as stated: for a PDF that loads with an empty text layer the per-page
\* OCR fallback runs, and the call resolves to the OCR-derived text when OCR
\* produced text and to the image-based failure message when OCR produced no
\* text for any page, OCR failing on every page included.
C7_OcrTextOrImageBasedMessage ==
  /\ (xpc = "returned" /\ ocrStage # "none") =>
       /\ trim(fullText) = <<>>
       /\ xResult.status = "resolved"
       /\ IF OcrProducedText
            THEN xResult.value = PdfOcrContent(file, ocrFullText)
            ELSE xResult.value = ImageBasedMessage(file)
  /\ (xpc = "returned" /\ ReaderFor(file.type) = "extractPdfText" /\ numPages > 0
        /\ trim(fullText) = <<>> /\ xResult # Resolved(PdfErrorMessage(file, "other")))
       => ocrStage # "none"

\* OCR threw on the only page and the marker came back as the document text
C7_MarkerReturnedAsText ==
  /\ xpc = "returned"
  /\ numPages = 1
  /\ ocrLog = <<"threw">>
  /\ xResult = Resolved(PdfOcrContent(file, OcrErrorMarker(1)))

----------------------------------------------------------------------------
(* queryDocuments: authentication and quota failures *)

ImmediateCategories == {"auth", "quota", "ratelimit"}

\* C11: when a primary or fallback attempt of the call failed with an
\* authentication/permission, quota or rate-limit error, the call has ended
\* by throwing the error of that class and the failed attempt is the last
\* model call it made.
C11_AuthQuotaSurfacedImmediately ==
  lastFailure \in ImmediateCategories =>
    /\ pc = "returned"
    /\ result.status = "threw"
    /\ result.error = lastFailure
    /\ attempts[Len(attempts)].kind \in {"primary", "fallback"}
    /\ attempts[Len(attempts)].outcome = "fail"

\* A fallback attempt failed with an authentication error and the loop went
\* on to send the prompt to the next fallback model.
C11_FallbackFailureSwallowed ==
  /\ lastFailure = "auth"
  /\ pc = "fallback"
  /\ Len(attempts) = 3
  /\ attempts[2].kind = "fallback"
  /\ attempts[2].outcome = "fail"
  /\ attempts[3].outcome = "pending"

----------------------------------------------------------------------------
(* Batch OCR: a failed item is recorded and the loop goes on *)

\* the message performOCR throws for a failed outcome
FailureMessage(o) ==
  IF o.ev = "modelerror" THEN o.detail[1]
  ELSE IF o.ev = "notinitialized" THEN "notinitialized"
  ELSE "generic"

\* extractedData of r is present and has an error key whose text begins with
\* message
HoldsError(r, message) ==
  /\ r.extractedData.t = "object"
  /\ \E k \in 1..Len(r.extractedData.kids) :
       /\ r.extractedData.kids[k].k = "error"
       /\ r.extractedData.kids[k].v.t = "string"
       /\ IsPrefix(<<message>>, r.extractedData.kids[k].v.text)

\* every failed item among the first n of the run has its message at its
\* position of rs
FailuresRecorded(rs, n) ==
  \A i \in 1..n :
    ~OutcomeSucceeded(outcomes[i]) =>
      /\ i <= Len(rs)
      /\ HoldsError(rs[i], FailureMessage(outcomes[i]))

\* a step of a running loop in which the current item failed
ItemFailedStep ==
  /\ opc \in {"reading", "calling"}
  /\ Len(outcomes') > Len(outcomes)
  /\ ~OutcomeSucceeded(outcomes'[oIdx])

\* C12: in a batch OCR run (performBatchOCR or handleProcessOCR) a failure on
\* item i, be it of the file read, of the model call or of the handling of
\* the response, is recorded at position i as a result whose extractedData
\* has an error key holding the failure message, and the loop then goes on
\* with item i+1: every later item is still handed to performOCR.
C12_FailureRecordedAndLoopContinues ==
  /\ [](opc \in {"reading", "calling"} => FailuresRecorded(processed, Len(outcomes)))
  /\ []((oDriver = "batch" /\ opc = "returned") =>
          /\ Len(outcomes) = Len(runFiles)
          /\ FailuresRecorded(processed, Len(outcomes)))
  /\ [][ItemFailedStep =>
          /\ Len(processed') >= oIdx
          /\ HoldsError(processed'[oIdx], FailureMessage(outcomes'[oIdx]))
          /\ oIdx < Len(runFiles) =>
               \/ opc' = "reading" /\ oIdx' = oIdx + 1
               \/ /\ Len(processed') = Len(runFiles)
                  /\ Len(outcomes') = Len(runFiles)
                  /\ \A j \in (oIdx + 1)..Len(runFiles) :
                       /\ outcomes'[j].ev = "notinitialized"
                       /\ HoldsError(processed'[j], "notinitialized")]_vars

\* the screen's loop recorded a quota failure of its first file and is
\* reading its second file
C12_Witness ==
  /\ oDriver = "screen"
  /\ opc = "reading"
  /\ oIdx = 2
  /\ Len(processed) = 1
  /\ outcomes[1] = ItemOutcome("modelerror", <<"quota">>)
  /\ HoldsError(processed[1], "quota")

----------------------------------------------------------------------------
(* Index page: the chat message list *)

\* a step that is the Clear All action
ClearAllStep == messages' = <<>> /\ documents' = <<>> /\ UNCHANGED pc

\* a step in which a submit was accepted
SubmitStep == ~isLoading /\ isLoading'

\* a step in which handleSendMessage resumes after its model call
ResumeStep == isLoading /\ ~isLoading'

C13_AnswerAfterClear ==
  /\ Len(messages) = 1
  /\ messages[1].type = "assistant"
  /\ ~isLoading

----------------------------------------------------------------------------
(* OCRInterface: camera streams *)

\* C14: the component never holds two streams that have not been stopped,
\* and once it has been torn down no stream that was delivered to it is
\* left running, whatever the order of start, switch, stop, capture,
\* teardown and the completion of a pending getUserMedia request.
C14_NoStreamLeftRunning ==
  /\ running <= 1
  /\ ~mounted => running = 0

\* while the component is mounted the only running stream is the one its
\* state holds
CameraHeldWhileMounted == mounted => (running = IF cameraStream THEN 1 ELSE 0)

\* the component was torn down while getUserMedia was pending; the request
\* then delivered a stream, which nothing stops
C14_StreamLeftRunning ==
  /\ ~mounted
  /\ cpc = "idle"
  /\ running = 1

----------------------------------------------------------------------------
(* The API key in quota messages *)

\* the text of the error key of a placeholder
ErrorTextOf(r) ==
  LET hits == {k \in 1..Len(r.extractedData.kids) : r.extractedData.kids[k].k = "error"}
  IN  r.extractedData.kids[CHOOSE k \in hits : TRUE].v.text

\* the placeholders of the current loop that hold a quota message
QuotaEntries ==
  {i \in 1..Len(processed) :
     IsErrorShaped(processed[i]) /\ IsPrefix(<<"quota">>, ErrorTextOf(processed[i]))}

\* C15: a quota-exceeded message embeds a prefix of the stored key and does
\* not contain the complete key, whatever the length of the stored key.
C15_QuotaMessageHidesKey ==
  storedKey # NoKey =>
    \A i \in QuotaEntries :
      /\ IsPrefix(Tail(ErrorTextOf(processed[i])), storedKey)
      /\ ~includes(ErrorTextOf(processed[i]), storedKey)

\* the quota message of a key of eight characters holds the whole key
C15_ShortKeyDisclosed ==
  /\ Len(storedKey) = PrefixLength
  /\ QuotaEntries # {}
  /\ \A i \in QuotaEntries : Tail(ErrorTextOf(processed[i])) = storedKey

\* the quota message of a longer key holds its first eight characters only
C15_LongKeyPrefixOnly ==
  /\ Len(storedKey) > PrefixLength
  /\ QuotaEntries # {}
  /\ \A i \in QuotaEntries :
       /\ Len(Tail(ErrorTextOf(processed[i]))) = PrefixLength
       /\ ~includes(ErrorTextOf(processed[i]), storedKey)

----------------------------------------------------------------------------
(* Batch OCR: one call at a time *)

\* a performOCR call of the running loop is suspended in a read or in the
\* model request: the call for item oIdx
CallInFlight == opc \in {"reading", "calling"}

\* a step in which the loop enters performOCR for an item and suspends
CallStarts ==
  /\ opc' = "reading"
  /\ ~CallInFlight \/ oIdx' # oIdx

\* C16: while a batch run (performBatchOCR or handleProcessOCR) has a
\* performOCR call in flight, that call is for item oIdx and the results of
\* exactly the items before it have been recorded, so no call for an earlier
\* or later item is pending; the call for the next item starts in the step
\* that records the result or the placeholder of the current one.
C16_OneCallAtATime ==
  /\ [](CallInFlight =>
          /\ oIdx \in 1..Len(runFiles)
          /\ Len(processed) = oIdx - 1
          /\ Len(outcomes) = oIdx - 1)
  /\ [][CallStarts =>
          /\ Len(processed') = oIdx' - 1
          /\ Len(outcomes') = oIdx' - 1
          /\ IF CallInFlight /\ oDriver' = oDriver /\ runFiles' = runFiles /\ oIdx' > 1
               THEN /\ oIdx' = oIdx + 1
                    /\ processed' # processed
                    /\ SubSeq(processed', 1, oIdx - 1) = processed
               ELSE oIdx' = 1 /\ ~CallInFlight]_vars

\* the screen's loop is waiting for the model's answer for its second file
\* with the first file's result recorded
C16_Witness ==
  /\ oDriver = "screen"
  /\ opc = "calling"
  /\ oIdx = 2
  /\ Len(processed) = 1
  /\ processed[1].timed

----------------------------------------------------------------------------
(* handleProcessOCR runs to completion *)

ScreenRunActive == oDriver = "screen" /\ opc \in {"reading", "calling"}

ScreenRunEnded ==
  /\ oDriver = "none"
  /\ ~isProcessing
  /\ progress = 100
  /\ Len(results) = Len(runFiles)
  /\ \A i \in 1..Len(results) :
       results[i].documentType =
         IF runFiles[i].kind = "camera" THEN "image/png" ELSE runFiles[i].type

\* C17: when every pending file read and model request settles, a loop
\* started by handleProcessOCR ends with isProcessing false, progress 100 and
\* one result for every file of the list it started with, whatever is added
\* to or removed from the screen's list, Clear All included, while it runs.
C17_ScreenRunCompletes == ScreenRunActive ~> ScreenRunEnded

\* a run of two files ended after one of them was removed from the list
C17_Witness ==
  /\ ScreenRunEnded
  /\ Len(runFiles) = 2
  /\ Len(files) = 1
  /\ Len(results) = 2

----------------------------------------------------------------------------
(* Dispatch of the accepted MIME types *)

\* the types of the accept list of DocumentUpload that the model draws from
AcceptedTypes ==
  { t \in MimeTypes :
      \/ t = <<"application", "/", "pdf">>
      \/ t = <<"application", "/", "ms", "word">>
      \/ t = <<"application", "/", "vnd", ".", "ms", "-", "excel">>
      \/ t = <<"application", "/", "vnd", ".", "ms", "-", "powerpoint">>
      \/ (Len(t) >= Len(OfficePrefix) /\ SubSeq(t, 1, Len(OfficePrefix)) = OfficePrefix)
      \/ (Len(t) >= 2 /\ SubSeq(t, 1, 2) = <<"text", "/">>)
      \/ (Len(t) >= 2 /\ SubSeq(t, 1, 2) = <<"image", "/">>) }

\* the reader of the format a type names
FormatReader(type) ==
  IF type = <<"application", "/", "pdf">> THEN "extractPdfText"
  ELSE IF type[1] = "text" THEN "readTextFile"
  ELSE IF type[1] = "image" THEN "convertImageToBase64"
  ELSE IF type \in { <<"application", "/", "ms", "word">>,
                     OfficePrefix \o <<"word", "processingml", ".", "document">> }
    THEN "extractWordText"
  ELSE IF type \in { <<"application", "/", "vnd", ".", "ms", "-", "excel">>,
                     OfficePrefix \o <<"spread", "sheet", "ml", ".", "sheet">> }
    THEN "extractExcelText"
  ELSE "extractPowerPointText"

\* C18: for every MIME type the upload accepts, extractTextContent takes the
\* branch of the reader of that format: Word types the Word reader, Excel
\* types the Excel reader, PowerPoint types the PowerPoint reader, pdf the
\* PDF reader, images the base64 encoder, text the text reader.
C18_DispatchesToFormatReader ==
  (xpc # "idle" /\ file.type \in AcceptedTypes)
    => ReaderFor(file.type) = FormatReader(file.type)

\* an .xlsx or .pptx file went through the Word reader and its result carries
\* the Word reader's label
C18_OpenXmlReadAsWord ==
  /\ xpc = "returned"
  /\ file.type \in { OfficePrefix \o <<"spread", "sheet", "ml", ".", "sheet">>,
                     OfficePrefix \o <<"presentation", "ml", ".", "presentation">> }
  /\ ReaderFor(file.type) = "extractWordText"
  /\ xResult.status = "resolved"
  /\ includes(xResult.value, <<OfficeLabel("extractWordText")>>)

\* the types whose names carry no "document" reach the reader of their format
C18_LegacyTypesDispatched ==
  (xpc # "idle" /\ file.type \in AcceptedTypes /\ ~includes(file.type, <<"office", "document">>))
    => ReaderFor(file.type) = FormatReader(file.type)

----------------------------------------------------------------------------
(* The skip check of the fallback loop *)

\* the fallback attempts of the call whose model is the one of its primary attempt
RepeatedPrimary ==
  { i \in 2..Len(attempts) :
      /\ attempts[1].kind = "primary"
      /\ attempts[i].kind = "fallback"
      /\ attempts[i].model = attempts[1].model }

\* C19: within one queryDocuments call the fallback loop does not send the
\* prompt again to the model whose primary attempt failed with not-found,
\* whichever model was current when the call started.
C19_FailedPrimaryNotRetried ==
  RepeatedPrimary = {}

\* a call that started on an adopted gemini-1.5-pro or gemini-pro sent the
\* same prompt to that model again after another fallback model had failed
C19_FailedPrimaryRetried ==
  \E i \in RepeatedPrimary :
    /\ attempts[1].outcome = "fail"
    /\ attempts[1].model \in {"gemini-1.5-pro", "gemini-pro"}
    /\ attempts[i].parts = attempts[1].parts
    /\ i > 2

\* a call that started on the default model never repeats it: its name is
\* not in fallbackModels
C19_DefaultNeverRepeated ==
  (attempts # <<>> /\ attempts[1].model = DefaultModel) => RepeatedPrimary = {}

----------------------------------------------------------------------------
(* Model discovery *)

\* the order of the test calls as the specification lists it
ProbeOrder == <<"gemini-2.0-flash-exp", "gemini-1.5-flash", "gemini-1.5-pro", "gemini-pro">>

\* how many test calls the call made up to attempt i
ProbesUpTo(i) == Cardinality({j \in 1..i : attempts[j].kind = "probe"})

\* a test call is made only when every earlier attempt of the call failed
\* and the fallback loop is over; the k-th test call goes to the k-th name
\* with the minimal request
ProbeAfterFallbacks ==
  \A i \in AttemptIdx :
    attempts[i].kind = "probe" =>
      /\ \A j \in 1..(i - 1) :
           /\ attempts[j].outcome = "fail"
           /\ attempts[j].kind \in {"primary", "fallback", "probe"}
      /\ Cardinality({j \in 1..(i - 1) : attempts[j].kind = "fallback"})
           >= Len(fallbackModels) - 1
      /\ \A j \in (i + 1)..Len(attempts) : attempts[j].kind # "fallback"
      /\ attempts[i].model = ProbeOrder[ProbesUpTo(i)]
      /\ attempts[i].parts = TestParts

\* the first test call that answers ends the probing and is followed by the
\* retry of the original prompt on its model
ProbeStopsAtFirstResponder ==
  \A i \in AttemptIdx :
    (attempts[i].kind = "probe" /\ attempts[i].outcome = "ok") =>
      /\ i + 1 = Len(attempts)
      /\ attempts[i + 1].kind = "retry"
      /\ attempts[i + 1].model = attempts[i].model
      /\ attempts[i + 1].parts = attempts[1].parts
      /\ attempts[i + 1].parts = contentParts

\* a retry that answers ends the call with its answer, and its model is the
\* current model (initialize, when it ran while the retry was pending, has
\* put the default model back)
RetrySuccessEndsCall ==
  \A i \in AttemptIdx :
    attempts[i].kind = "retry" =>
      /\ i > 1
      /\ attempts[i - 1].kind = "probe"
      /\ attempts[i - 1].outcome = "ok"
      /\ attempts[i].outcome = "ok" =>
           /\ pc = "returned"
           /\ result.status = "ok"
           /\ result.answer = ReturnedAnswer(attempts[i].answer)
           /\ (~initSinceAttempt =>
                 (model = attempts[i].model /\ modelName = attempts[i].model))

----------------------------------------------------------------------------
(* Classification of a failed primary attempt *)

\* the classes in the order the specification gives them
ClassOrder == <<"nf", "auth", "quota", "rate">>

ClassName(c) ==
  CASE c = "nf" -> "modelnotfound"
    [] c = "auth" -> "auth"
    [] c = "quota" -> "quota"
    [] OTHER -> "ratelimit"

\* the earliest class of ClassOrder a message matches, generic when none
EarliestClass(msg) ==
  LET hits == {i \in 1..Len(ClassOrder) : ClassOrder[i] \in msg}
  IN  IF hits = {} THEN "generic"
      ELSE ClassName(ClassOrder[CHOOSE i \in hits : \A j \in hits : i <= j])

PrimaryFailed ==
  /\ attempts # <<>>
  /\ attempts[1].kind = "primary"
  /\ attempts[1].outcome = "fail"

\* C21: a failed primary attempt either enters the fallback path (its
\* message matches model-not-found) or makes the call throw one categorised
\* error, the category being the first match in the order model-not-found,
\* authentication, quota, rate-limit, generic; what the caller receives is a
\* message built by the catch block, never the error that was caught.
C21_PrimaryFailureCategorised ==
  PrimaryFailed =>
    IF EarliestClass(errorMessage) = "modelnotfound"
      THEN /\ Len(attempts) >= 2
           /\ attempts[2].kind = "fallback"
           /\ (pc = "returned" /\ result.status = "threw") => result.error = "terminal"
      ELSE /\ Len(attempts) = 1
           /\ pc = "returned"
           /\ result = Thrown(EarliestClass(errorMessage),
                              IF EarliestClass(errorMessage) = "generic"
                                THEN "transport" ELSE "none")

\* a message matching both the authentication and the quota class was thrown
\* as the authentication error
C21_Witness ==
  /\ PrimaryFailed
  /\ errorMessage = {"auth", "quota"}
  /\ pc = "returned"
  /\ result.error = "auth"

\* a message matching model-not-found and quota entered the fallback path
C21_NotFoundFirst ==
  /\ PrimaryFailed
  /\ errorMessage = {"nf", "quota"}
  /\ pc = "fallback"

----------------------------------------------------------------------------
(* The current model of a call that threw *)

\* C22: queryDocuments changes the current model (handle and name) only by
\* adopting a fallback or discovered model that answered; a call that ends
\* by throwing leaves the current model as it was when the call began (or on
\* the default model, when initialize put it back while the call ran).
C22_ThrowLeavesModel ==
  (pc = "returned" /\ result.status = "threw" /\ attempts # <<>>) =>
    /\ model \in {attempts[1].model, DefaultModel}
    /\ modelName = model

\* the call began on the default model, every attempt failed, the terminal
\* error was thrown, and the current model is the last fallback name
C22_FailedFallbackIsCurrent ==
  /\ pc = "returned"
  /\ result = Thrown("terminal", "modelnotfound")
  /\ attempts[1].model = DefaultModel
  /\ \A i \in AttemptIdx : attempts[i].outcome = "fail"
  /\ model = fallbackModels[Len(fallbackModels)]
  /\ modelName = fallbackModels[Len(fallbackModels)]

\* a call whose primary attempt failed outside the not-found class made no
\* assignment: the current model is the one of the primary attempt unless
\* initialize ran meanwhile
C22_OtherClassesLeaveModel ==
  (pc = "returned" /\ result.status = "threw" /\ Len(attempts) = 1 /\ ~initSinceAttempt) =>
    /\ model = attempts[1].model
    /\ modelName = attempts[1].model

----------------------------------------------------------------------------
(* PDF with a short text layer *)

\* the page loop of extractPdfText ran to its end
PageLoopDone ==
  \/ ocrStage # "none"
  \/ (xpc = "returned" /\ xResult = Resolved(PdfContent(file, fullText)))

\* C23: extractPdfText runs the OCR fallback when the text of the pages is
\* empty and also when it is non-empty but shorter than the minimum length.
C23_ShortTextRunsOcr ==
  (PageLoopDone /\ Len(trim(fullText)) < MinContentLength) => ocrStage # "none"

\* a PDF whose pages hold one character was returned as its text content
\* and the OCR fallback never started
C23_ShortTextReturned ==
  /\ xpc = "returned"
  /\ trim(fullText) = <<"t">>
  /\ xResult = Resolved(PdfContent(file, fullText))
  /\ ocrStage = "none"

\* the fallback does run whenever the trimmed text is empty
C23_EmptyTextRunsOcr ==
  (PageLoopDone /\ trim(fullText) = <<>>) => ocrStage # "none"

----------------------------------------------------------------------------
(* Model-not-found in performOCR *)

\* input i failed on a not-found error of its model call
NotFoundFailures ==
  {i \in 1..Len(outcomes) :
     outcomes[i].ev = "modelerror" /\ "nf" \in Range(outcomes[i].detail)}

\* C24: when the model call of performOCR fails with model-not-found, the
\* OCR path tries the fallback models and discovery before it reports the
\* input as failed: no input is reported failed on the not-found error of
\* the one call made with the service's model.
C24_NotFoundTriesAlternatives ==
  NotFoundFailures = {}

\* the only model call of an input failed with not-found; the input holds
\* the generic OCR failure and the service's model is the one it had
C24_NotFoundIsTerminal ==
  /\ oDriver = "batch"
  /\ opc = "returned"
  /\ Len(runFiles) = 1
  /\ outcomes = <<ItemOutcome("modelerror", <<"generic", "nf">>)>>
  /\ HoldsError(processed[1], "generic")
  /\ ocrModel = DefaultModel

----------------------------------------------------------------------------
(* Pairing of the messages *)

\* C25: in every reachable state of the chat page every assistant message is
\* immediately preceded by the user message it answers, also when Clear All
\* or a removal happens while the query is in flight.
C25_AnswerFollowsQuestion ==
  \A i \in 1..Len(messages) :
    messages[i].type = "assistant" =>
      /\ i > 1
      /\ messages[i - 1].type = "user"

\* Clear All emptied the list while the query was pending; the answer then
\* arrived and is the first message, with no question before it
C25_AnswerWithoutQuestion ==
  /\ pc = "idle"
  /\ ~isLoading
  /\ documents = <<>>
  /\ Len(messages) = 1
  /\ messages[1].type = "assistant"

\* while no Clear All intervenes the pairing holds: a list that still holds
\* the question of the pending query gets the answer right after it
C25_PairedWhileQuestionKept ==
  [][(pc = "returned" /\ messages # <<>> /\ messages[Len(messages)].type = "user"
        /\ Len(messages') = Len(messages) + 1)
       => C25_AnswerFollowsQuestion']_vars

----------------------------------------------------------------------------
(* Clear All during a Process run *)

\* C26: after Clear All the results list and the combined JSON stay empty
\* until the user starts a new Process run, also when Clear All was pressed
\* while a run was going on.
C26_ClearedStaysEmpty ==
  clearedInRun => (results = <<>> /\ combinedJson = NoCombined)

\* Clear All was pressed during a run; the run went on over the files it had
\* captured and, when it ended, filled the results and the combined JSON of
\* a screen that lists no file
C26_ResultsAfterClear ==
  /\ clearedInRun
  /\ oDriver = "none"
  /\ ~isProcessing
  /\ files = <<>>
  /\ results # <<>>
  /\ combinedJson = combineResults(results)

\* outside a run the claim holds: the results are filled by the end of a
\* Process run and by nothing else
C26_FilledByRunOnly ==
  [][(results = <<>> /\ results' # <<>>) => (oDriver = "screen" /\ oDriver' = "none")]_vars

----------------------------------------------------------------------------
(* Every supplied document leaves a trace in the prompt *)

\* document d has its own content part in parts: a labelled text block, or a
\* label followed by its inline image
HasContentPart(d, parts) ==
  \/ \E k \in 1..Len(parts) :
       parts[k] = Part("text", <<d.name>>, d.len)
  \/ \E k \in 1..(Len(parts) - 1) :
       /\ parts[k] = Part("label", <<d.name>>, 0)
       /\ parts[k + 1] = Part("inlineData", <<d.name>>, d.len)

\* document d is named in the cannot-analyze note, the last of the parts
NamedInNote(d, parts) ==
  /\ parts[Len(parts)].kind = "note"
  /\ d.name \in Range(parts[Len(parts)].names)

SingleTrailingNote(parts) ==
  \A k \in 1..Len(parts) : parts[k].kind = "note" => k = Len(parts)

\* C27: in every call that reaches the model each supplied document has its
\* own content part in the prompt or is named in the one cannot-analyze note
\* that follows the document parts.
C27_EveryDocumentTraced ==
  \A i \in AttemptIdx :
    attempts[i].kind \in PromptKinds =>
      /\ SingleTrailingNote(attempts[i].parts)
      /\ \A j \in 1..Len(callDocs) :
           \/ HasContentPart(callDocs[j], attempts[i].parts)
           \/ NamedInNote(callDocs[j], attempts[i].parts)

\* an empty text file was supplied with a readable one: the model call
\* carries the prompt and the readable file only, and no note
C27_EmptyDocumentDropped ==
  /\ pc = "primary"
  /\ Len(callDocs) = 2
  /\ callDocs[1].len = 0
  /\ callDocs[1].name # callDocs[2].name
  /\ attempts[1].parts = <<Part("prompt", MapName(callDocs), 0),
                           Part("text", <<callDocs[2].name>>, callDocs[2].len)>>

\* the documents the loop does sort are traced: one with content that is not
\* an image without data has its content part or is named in the note
C27_SortedDocumentsTraced ==
  \A i \in AttemptIdx :
    attempts[i].kind \in PromptKinds =>
      /\ SingleTrailingNote(attempts[i].parts)
      /\ \A j \in 1..Len(callDocs) :
           (isProcessed(callDocs[j]) \/ isNonProcessable(callDocs[j])) =>
             \/ HasContentPart(callDocs[j], attempts[i].parts)
             \/ NamedInNote(callDocs[j], attempts[i].parts)

----------------------------------------------------------------------------
(* Sources and the documents that were sent *)

\* the names of the supplied documents whose content is in the prompt
SentNames ==
  {callDocs[j].name : j \in {k \in 1..Len(callDocs) : HasContentPart(callDocs[k], contentParts)}}

\* C28: every name in the sources a call returns is the name of a document
\* whose content was sent to the model in that call; a document without
\* content or routed to the cannot-analyze note is never cited.
C28_SourcesWereSent ==
  (pc = "returned" /\ result.status = "ok") =>
    \A k \in 1..Len(result.sources) : result.sources[k] \in SentNames

\* the answer named no document, so every supplied name was returned as a
\* source, the image-based PDF of the cannot-analyze note among them
C28_NotedDocumentCited ==
  /\ pc = "returned"
  /\ result.status = "ok"
  /\ Len(callDocs) = 2
  /\ isProcessed(callDocs[1])
  /\ isImageBasedPDF(callDocs[2])
  /\ callDocs[2].name \notin SentNames
  /\ contentParts[Len(contentParts)].kind = "note"
  /\ result.sources = MapName(callDocs)

\* what does hold: every source is the name of a supplied document
C28_SourcesWereSupplied ==
  (pc = "returned" /\ result.status = "ok") =>
    \A k \in 1..Len(result.sources) : result.sources[k] \in Range(MapName(callDocs))

----------------------------------------------------------------------------
(* performOCR on responses that are JSON but not objects *)

\* C29: whenever the model call of performOCR succeeds, performOCR returns
\* an OCRResult (it does not throw) whose extractedData is a key-value
\* object, whatever the response text: a JSON object, fenced JSON, text that
\* is not JSON, or JSON that is not an object.
C29_ResponseYieldsObject ==
  \A i \in ResponseEntries :
    /\ processed[i].timed
    /\ ~IsErrorShaped(processed[i])
    /\ processed[i].extractedData.t = "object"

\* the model answered null: reading rawText of the parsed value threw inside
\* the try, and the input holds the placeholder of a failed OCR
C29_NullResponseThrew ==
  \E i \in ResponseEntries :
    /\ outcomes[i].detail = <<"null">>
    /\ IsErrorShaped(processed[i])
    /\ HoldsError(processed[i], "generic")

\* the model answered a JSON array: the result was returned with the array
\* as its extractedData
C29_ArrayReturnedAsData ==
  \E i \in ResponseEntries :
    /\ outcomes[i].detail = <<"[", "1", "]">>
    /\ processed[i].timed
    /\ processed[i].extractedData.t = "array"

\* objects, fenced objects and text that is not JSON do yield an object
C29_ObjectOrTextYieldsObject ==
  \A i \in ResponseEntries :
    (Unparsable(outcomes[i].detail) \/ FencedJson(outcomes[i].detail) # {}
       \/ outcomes[i].detail = ResponseObject) =>
      /\ processed[i].timed
      /\ processed[i].extractedData.t = "object"

----------------------------------------------------------------------------
(* One query at a time on the chat page *)

\* a step that appends a user message
UserMessageAppended ==
  /\ Len(messages') = Len(messages) + 1
  /\ messages'[Len(messages')].type = "user"

\* a step in which queryDocuments is entered
CallStarted ==
  /\ pc = "idle"
  /\ pc' # "idle"

\* the handler resumes after the await and leaves its finally block
CallEnded ==
  /\ pc = "returned"
  /\ pc' = "idle"

\* C30: at most one document query is in flight on the chat page.  A call is
\* pending exactly while isLoading is true; while it is, no submit appends a
\* user message or starts a model call; and isLoading is false again once
\* the call has ended, whether it returned or threw.
C30_OneQueryInFlight ==
  /\ [](isLoading <=> pc # "idle")
  /\ [][isLoading => (~UserMessageAppended /\ ~CallStarted)]_vars
  /\ [][CallEnded => (isLoading /\ ~isLoading')]_vars

\* a query is pending and only the isLoading test keeps a further submit
\* out: the service is initialized, a document is listed and the message
\* list has room
C30_Witness ==
  /\ isLoading
  /\ pc = "primary"
  /\ model # Null
  /\ Len(documents) > 0
  /\ Len(messages) + 2 <= MaxMessages

\* a query that threw has ended with isLoading false
C30_ResetAfterFailure ==
  /\ pc = "idle"
  /\ ~isLoading
  /\ error # Null
  /\ messages # <<>>
  /\ messages[Len(messages)].type = "user"

====
